---- MODULE Spec2Model ----
(***************************************************************************)
(* RealtimeConversation: the conversation store that folds the realtime    *)
(* event stream into items, responses and pending buffers, and the         *)
(* processEvent dispatcher with its table of per-event-type handlers.      *)
(*                                                                         *)
(* JavaScript values are represented as follows.                           *)
(*   - a string is a sequence of one-character strings ("" is << >>);      *)
(*   - an Int16Array is a sequence of integers;                            *)
(*   - a property that may be undefined (or null) is a set with at most    *)
(*     one element: {} is undefined, {v} is the value v;                   *)
(*   - an object with identity (a stored item) is a reference into heap.   *)
(***************************************************************************)
EXTENDS Integers, Sequences, FiniteSets, TLC

VARIABLES itemLookup, items, responseLookup, responses, queuedSpeechItems,
          queuedTranscriptItems, queuedInputAudio, defaultFrequency,
          audioFormat, heap, fed, nEvents,
          platform, ws, sockets, pendingConnects, effects, nCalls

\* the fields of a RealtimeConversation, with the history of its event stream
conversationVars ==
    <<itemLookup, items, responseLookup, responses, queuedSpeechItems,
      queuedTranscriptItems, queuedInputAudio, defaultFrequency,
      audioFormat, heap, fed, nEvents>>

\* the fields of a RealtimeAPI, the sockets it made and the calls it made on
\* its collaborators
apiVars == <<platform, ws, sockets, pendingConnects, effects, nCalls>>

vars == <<conversationVars, apiVars>>

(* ---------------------------------------------------------------------- *)
(* Bounds and input domains                                               *)
(* ---------------------------------------------------------------------- *)

\* number of calls made on the store in one behaviour
MaxEvents == 3

\* number of calls and socket callbacks on the API in one behaviour
MaxCalls == 4

\* item ids and response ids carried by the events
Ids == {"X", "Y"}
RIds == {"R"}
\* the item that every event may address; the other items are only created,
\* deleted and sent transcript deltas
MainIds == {"X"}

(* ---------------------------------------------------------------------- *)
(* JavaScript value helpers                                               *)
(* ---------------------------------------------------------------------- *)

Undef == {}
Def(v) == {v}
IsDef(x) == x # {}
Get(x) == CHOOSE v \in x : TRUE

\* String(x) as used by the + operator: undefined becomes "undefined"
Str(x) == IF x = {} THEN <<"u","n","d","e","f","i","n","e","d">> ELSE Get(x)

\* a string-valued property is truthy when it is defined and non-empty
Truthy(x) == x # {} /\ Get(x) # << >>

Range(f) == {f[i] : i \in DOMAIN f}

\* Array.prototype.slice / TypedArray.prototype.slice(from, to), 0-based,
\* for 0 <= from and 0 <= to
Slice(a, from, to) ==
    LET lo == IF from > Len(a) THEN Len(a) ELSE from
        hi == IF to > Len(a) THEN Len(a) ELSE to
    IN IF hi <= lo THEN << >> ELSE SubSeq(a, lo + 1, hi)

\* Math.floor(x) for x = num / den with den > 0 and num >= 0
Floor(num, den) == num \div den

(* ---------------------------------------------------------------------- *)
(* RealtimeUtils (utils.js)                                               *)
(* ---------------------------------------------------------------------- *)

B64Alphabet ==
    << "A","B","C","D","E","F","G","H","I","J","K","L","M","N","O","P",
       "Q","R","S","T","U","V","W","X","Y","Z","a","b","c","d","e","f",
       "g","h","i","j","k","l","m","n","o","p","q","r","s","t","u","v",
       "w","x","y","z","0","1","2","3","4","5","6","7","8","9","+","/" >>

B64Val(c) == (CHOOSE i \in 1..64 : B64Alphabet[i] = c) - 1

Pow2(n) == IF n = 0 THEN 1 ELSE IF n = 2 THEN 4 ELSE 16

\* base64 text -> the bytes it encodes
base64ToArrayBuffer(b64) ==
    LET core == SelectSeq(b64, LAMBDA c : c # "=")
        nBytes == (Len(core) * 6) \div 8
        byteAt(k) ==
            LET j == (8 * k) \div 6
                r == (8 * k) % 6
                w == B64Val(core[j + 1]) * 64 + B64Val(core[j + 2])
            IN (w \div Pow2(4 - r)) % 256
    IN [k \in 1..nBytes |-> byteAt(k - 1)]

\* new Int16Array(arrayBuffer): little-endian signed 16-bit samples
Int16Array(bytes) ==
    [i \in 1..(Len(bytes) \div 2) |->
        LET u == bytes[2 * i - 1] + 256 * bytes[2 * i]
        IN IF u >= 32768 THEN u - 65536 ELSE u]

mergeInt16Arrays(left, right) == left \o right

getSampleRate(format) == IF format = "pcm16" THEN 24000 ELSE 8000

(* ---------------------------------------------------------------------- *)
(* The store as a value, and the objects it references                    *)
(* ---------------------------------------------------------------------- *)

Store ==
    [itemLookup |-> itemLookup, items |-> items,
     responseLookup |-> responseLookup, responses |-> responses,
     queuedSpeechItems |-> queuedSpeechItems,
     queuedTranscriptItems |-> queuedTranscriptItems,
     queuedInputAudio |-> queuedInputAudio,
     defaultFrequency |-> defaultFrequency, audioFormat |-> audioFormat,
     heap |-> heap]

\* the references the store holds
LiveRefs(s) == Range(s.items) \cup UNION {s.itemLookup[i] : i \in Ids}

\* JSON.parse(JSON.stringify(item)) yields an object distinct from every
\* object the store holds
NewRef(s) ==
    CHOOSE h \in 1..(Cardinality(LiveRefs(s)) + 1) : h \notin LiveRefs(s)

PutObj(s, h, o) ==
    [s EXCEPT !.heap = [r \in (DOMAIN s.heap) \cup {h} |->
                            IF r = h THEN o ELSE s.heap[r]]]

\* the object registered under id (itemLookup[id] must be defined)
ObjOf(s, id) == s.heap[Get(s.itemLookup[id])]

\* what a handler hands back: the store it leaves, whether it threw, and
\* the {item, delta} it returned
Ret(s, item, delta) == [s |-> s, raised |-> FALSE, item |-> item, delta |-> delta]
Throw(s) == [s |-> s, raised |-> TRUE, item |-> {}, delta |-> {}]

NoDelta == {}
DeltaOf(text, transcript, audio, arguments) ==
    Def([text |-> text, transcript |-> transcript, audio |-> audio,
         arguments |-> arguments])

\* the object made from an event's item payload and a formatted projection
MkItem(item, status, arguments, formatted) ==
    [id |-> item.id, type |-> item.type, role |-> item.role, status |-> status,
     content |-> item.content, name |-> item.name, call_id |-> item.call_id,
     arguments |-> arguments, output |-> item.output, formatted |-> formatted]

EmptyFormatted ==
    [audio |-> << >>, text |-> << >>, transcript |-> Def(<< >>),
     tool |-> Undef, output |-> Undef]

(* ---------------------------------------------------------------------- *)
(* EventProcessors                                                        *)
(* ---------------------------------------------------------------------- *)

TextTypes == {"text", "input_text", "output_text"}
AudioTypes == {"audio", "output_audio", "input_audio"}

\* for (const content of textContent) formatted.text += content.text
RECURSIVE WalkText(_, _)
WalkText(parts, acc) ==
    IF parts = << >> THEN acc
    ELSE WalkText(Tail(parts),
                  IF Head(parts).type \in TextTypes
                  THEN acc \o Str(Head(parts).text) ELSE acc)

\* for (const content of audioContent) if (content.audio) merge decoded audio
RECURSIVE WalkAudio(_, _)
WalkAudio(parts, acc) ==
    IF parts = << >> THEN acc
    ELSE WalkAudio(Tail(parts),
                   IF Head(parts).type \in AudioTypes /\ Truthy(Head(parts).audio)
                   THEN mergeInt16Arrays(acc,
                            Int16Array(base64ToArrayBuffer(Get(Head(parts).audio))))
                   ELSE acc)

\* The steps of the item.created handler, each taking and returning the
\* handler's working state: the store s, the copy n and its reference h.

\* variant: the copy is registered without looking the id up first
created_register_always(s, item) ==
    [s |-> [s EXCEPT !.itemLookup[item.id] = Def(NewRef(s)),
                     !.items = Append(@, NewRef(s))],
     h |-> NewRef(s),
     n |-> MkItem(item, item.status, item.arguments, EmptyFormatted)]

\* variant: the copy is put at the head of the sequence
created_register_prepends(s, item) ==
    [s |-> IF s.itemLookup[item.id] = {}
           THEN [s EXCEPT !.itemLookup[item.id] = Def(NewRef(s)),
                          !.items = <<NewRef(s)>> \o @]
           ELSE s,
     h |-> NewRef(s),
     n |-> MkItem(item, item.status, item.arguments, EmptyFormatted)]

\* lines 24-33: copy the payload, register the copy unless the id is
\* registered, give it an empty formatted
created_register(s, item) ==
    [s |-> IF s.itemLookup[item.id] = {}
           THEN [s EXCEPT !.itemLookup[item.id] = Def(NewRef(s)),
                          !.items = Append(@, NewRef(s))]
           ELSE s,
     h |-> NewRef(s),
     n |-> MkItem(item, item.status, item.arguments, EmptyFormatted)]

\* variant: the pending speech segment is deleted without its audio being
\* taken over
created_speech_dropsAudio(c) ==
    LET sp == c.s.queuedSpeechItems[c.n.id]
    IN IF ~IsDef(sp) THEN c
       ELSE [c EXCEPT !.s.queuedSpeechItems[c.n.id] = Undef]

\* lines 34-39: take over and delete the pending speech segment
created_speech(c) ==
    LET sp == c.s.queuedSpeechItems[c.n.id]
    IN IF ~IsDef(sp) THEN c
       ELSE [c EXCEPT !.n.formatted.audio =
                          IF IsDef(Get(sp).audio) THEN Get(Get(sp).audio) ELSE @,
                      !.s.queuedSpeechItems[c.n.id] = Undef]

\* lines 40-61: walk the content parts
created_content(c) ==
    IF ~IsDef(c.n.content) THEN c
    ELSE [c EXCEPT !.n.formatted.text = WalkText(Get(c.n.content), @),
                   !.n.formatted.audio = WalkAudio(Get(c.n.content), @)]

\* lines 62-65: take over and delete the pending transcript entry
created_transcript(c) ==
    LET tq == c.s.queuedTranscriptItems[c.n.id]
    IN IF ~IsDef(tq) THEN c
       ELSE [c EXCEPT !.n.formatted.transcript = Get(tq).transcript,
                      !.s.queuedTranscriptItems[c.n.id] = Undef]

\* lines 66-92: status and projection by item type
created_type(c) ==
    LET n == c.n
        tq == c.s.queuedTranscriptItems[n.id]
        drain == IsDef(tq) /\ Truthy(Get(tq).arguments)
    IN IF n.type = "message" /\ n.role = Def("user")
       THEN [c EXCEPT !.n.status = Def("completed"),
                      !.n.formatted.audio = IF IsDef(c.s.queuedInputAudio)
                                            THEN Get(c.s.queuedInputAudio) ELSE @,
                      !.s.queuedInputAudio = Undef]
       ELSE IF n.type = "message"
       THEN [c EXCEPT !.n.status = Def("in_progress")]
       ELSE IF n.type = "function_call"
       THEN [c EXCEPT !.n.formatted.tool =
                          Def([type |-> "function", name |-> n.name,
                               call_id |-> n.call_id,
                               arguments |-> IF drain THEN Get(Get(tq).arguments)
                                             ELSE << >>]),
                      !.n.arguments = IF drain THEN Get(tq).arguments ELSE @,
                      !.s.queuedTranscriptItems[n.id] = IF drain THEN Undef ELSE @,
                      !.n.status = Def("in_progress")]
       ELSE IF n.type = "function_call_output"
       THEN [c EXCEPT !.n.status = Def("completed"),
                      !.n.formatted.output = n.output]
       ELSE c

\* line 93
created_return(c) == Ret(PutObj(c.s, c.h, c.n), Def(c.h), NoDelta)

conversation_item_created(s, event, args) ==
    created_return(
        created_type(
            created_transcript(
                created_content(
                    created_speech(
                        created_register(s, event.item))))))

conversation_item_added(s, event, args) ==
    conversation_item_created(s, event, args)

\* Object.assign(existingItem, item): every own property of the payload
\* overwrites the stored one; formatted is no property of a payload
ObjectAssign(o, item) ==
    [o EXCEPT !.id = item.id, !.type = item.type,
              !.role = IF IsDef(item.role) THEN item.role ELSE @,
              !.status = IF IsDef(item.status) THEN item.status ELSE @,
              !.content = IF IsDef(item.content) THEN item.content ELSE @,
              !.name = IF IsDef(item.name) THEN item.name ELSE @,
              !.call_id = IF IsDef(item.call_id) THEN item.call_id ELSE @,
              !.arguments = IF IsDef(item.arguments) THEN item.arguments ELSE @,
              !.output = IF IsDef(item.output) THEN item.output ELSE @]

\* variant: a done event for an unregistered id is ignored
conversation_item_done_ignoresUnknown(s, event, args) ==
    LET item == event.item
        ref == s.itemLookup[item.id]
    IN IF IsDef(ref)
       THEN Ret(PutObj(s, Get(ref), ObjectAssign(s.heap[Get(ref)], item)),
                ref, NoDelta)
       ELSE Ret(s, Undef, NoDelta)

conversation_item_done(s, event, args) ==
    LET item == event.item
        ref == s.itemLookup[item.id]
    IN IF IsDef(ref)
       THEN Ret(PutObj(s, Get(ref), ObjectAssign(s.heap[Get(ref)], item)),
                ref, NoDelta)
       ELSE conversation_item_created(s, event, args)

\* variant: the sample index is computed at 24000 Hz whatever the format
conversation_item_truncated_fixedRate(s, event, args) ==
    LET ref == s.itemLookup[event.item_id]
        o == s.heap[Get(ref)]
        endIndex == Floor(event.audio_end_ms * 24000, 1000)
    IN IF ~IsDef(ref) THEN Ret(s, Undef, NoDelta)
       ELSE Ret(PutObj(s, Get(ref),
                       [o EXCEPT !.formatted.transcript = Def(<< >>),
                                 !.formatted.audio = Slice(@, 0, endIndex)]),
                ref, NoDelta)

conversation_item_truncated(s, event, args) ==
    LET ref == s.itemLookup[event.item_id]
        o == s.heap[Get(ref)]
        endIndex == Floor(event.audio_end_ms * s.defaultFrequency, 1000)
    IN IF ~IsDef(ref) THEN Ret(s, Undef, NoDelta)
       ELSE Ret(PutObj(s, Get(ref),
                       [o EXCEPT !.formatted.transcript = Def(<< >>),
                                 !.formatted.audio = Slice(@, 0, endIndex)]),
                ref, NoDelta)

\* this.items.indexOf(item), 1-based; 0 when absent
IndexOf(seq, x) ==
    IF \E i \in 1..Len(seq) : seq[i] = x
    THEN CHOOSE i \in 1..Len(seq) : seq[i] = x /\ \A j \in 1..(i - 1) : seq[j] # x
    ELSE 0

\* this.items.splice(index, 1)
Splice1(seq, index) ==
    [i \in 1..(Len(seq) - 1) |-> IF i < index THEN seq[i] ELSE seq[i + 1]]

\* variant: the item leaves the lookup but stays in the sequence
conversation_item_deleted_lookupOnly(s, event, args) ==
    LET ref == s.itemLookup[event.item_id]
        o == s.heap[Get(ref)]
    IN IF ~IsDef(ref) THEN Ret(s, Undef, NoDelta)
       ELSE Ret([s EXCEPT !.itemLookup[o.id] = Undef], ref, NoDelta)

conversation_item_deleted(s, event, args) ==
    LET ref == s.itemLookup[event.item_id]
        o == s.heap[Get(ref)]
        s1 == [s EXCEPT !.itemLookup[o.id] = Undef]
        index == IndexOf(s1.items, Get(ref))
        s2 == IF index > 0 THEN [s1 EXCEPT !.items = Splice1(@, index)] ELSE s1
    IN IF ~IsDef(ref) THEN Ret(s, Undef, NoDelta)
       ELSE Ret(s2, ref, NoDelta)

\* item.content[content_index] can be read: content is an array (otherwise
\* the read throws a TypeError)
HasContent(o) == IsDef(o.content)
\* item.content[content_index] is a content part
HasPart(o, ci) == IsDef(o.content) /\ ci + 1 <= Len(Get(o.content))
PartOf(o, ci) == Get(o.content)[ci + 1]
SetPart(o, ci, part) == [o EXCEPT !.content = Def([Get(@) EXCEPT ![ci + 1] = part])]

\* variant: the transcript is queued and projected as it came, an empty
\* one not replaced by a space
conversation_item_input_audio_transcription_completed_noSpace(s, event, args) ==
    LET item_id == event.item_id
        ci == event.content_index
        transcript == event.transcript
        ref == s.itemLookup[item_id]
        o == s.heap[Get(ref)]
    IN IF ~IsDef(ref)
       THEN Ret([s EXCEPT !.queuedTranscriptItems[item_id] =
                     Def([transcript |-> transcript, arguments |-> Undef])],
                Undef, NoDelta)
       ELSE IF ~HasPart(o, ci) THEN Throw(s)
       ELSE Ret(PutObj(s, Get(ref),
                       [SetPart(o, ci, [PartOf(o, ci) EXCEPT !.transcript = transcript])
                           EXCEPT !.formatted.transcript = transcript]),
                ref, DeltaOf(Undef, transcript, Undef, Undef))

conversation_item_input_audio_transcription_completed(s, event, args) ==
    LET item_id == event.item_id
        ci == event.content_index
        transcript == event.transcript
        ref == s.itemLookup[item_id]
        o == s.heap[Get(ref)]
        formattedTranscript == IF Truthy(transcript) THEN Get(transcript) ELSE <<" ">>
    IN IF ~IsDef(ref)
       THEN Ret([s EXCEPT !.queuedTranscriptItems[item_id] =
                     Def([transcript |-> Def(formattedTranscript),
                          arguments |-> Undef])],
                Undef, NoDelta)
       ELSE IF ~HasPart(o, ci) THEN Throw(s)
       ELSE Ret(PutObj(s, Get(ref),
                       [SetPart(o, ci, [PartOf(o, ci) EXCEPT !.transcript = transcript])
                           EXCEPT !.formatted.transcript = Def(formattedTranscript)]),
                ref, DeltaOf(Undef, transcript, Undef, Undef))

input_audio_buffer_speech_started(s, event, args) ==
    Ret([s EXCEPT !.queuedSpeechItems[event.item_id] =
             Def([audio_start_ms |-> Def(event.audio_start_ms),
                  audio_end_ms |-> Undef, audio |-> Undef])],
        Undef, NoDelta)

\* Math.floor((ms * frequency) / 1000) as an index of slice(): an undefined
\* ms gives NaN, which slice() reads as 0
SampleIndex(ms, frequency) ==
    IF IsDef(ms) THEN Floor(Get(ms) * frequency, 1000) ELSE 0

\* variant: the slice starts at the head of the buffer
input_audio_buffer_speech_stopped_fromZero(s, event, args) ==
    LET item_id == event.item_id
        audio_end_ms == event.audio_end_ms
        inputAudioBuffer == args
        sp0 == IF IsDef(s.queuedSpeechItems[item_id])
               THEN Get(s.queuedSpeechItems[item_id])
               ELSE [audio_start_ms |-> Def(audio_end_ms), audio_end_ms |-> Undef,
                     audio |-> Undef]
        sp1 == [sp0 EXCEPT !.audio_end_ms = Def(audio_end_ms)]
        endIndex == SampleIndex(sp1.audio_end_ms, s.defaultFrequency)
        sp2 == IF IsDef(inputAudioBuffer)
               THEN [sp1 EXCEPT !.audio = Def(Slice(Get(inputAudioBuffer), 0, endIndex))]
               ELSE sp1
    IN Ret([s EXCEPT !.queuedSpeechItems[item_id] = Def(sp2)], Undef, NoDelta)

input_audio_buffer_speech_stopped(s, event, args) ==
    LET item_id == event.item_id
        audio_end_ms == event.audio_end_ms
        inputAudioBuffer == args
        sp0 == IF IsDef(s.queuedSpeechItems[item_id])
               THEN Get(s.queuedSpeechItems[item_id])
               ELSE [audio_start_ms |-> Def(audio_end_ms), audio_end_ms |-> Undef,
                     audio |-> Undef]
        sp1 == [sp0 EXCEPT !.audio_end_ms = Def(audio_end_ms)]
        startIndex == SampleIndex(sp1.audio_start_ms, s.defaultFrequency)
        endIndex == SampleIndex(sp1.audio_end_ms, s.defaultFrequency)
        sp2 == IF IsDef(inputAudioBuffer)
               THEN [sp1 EXCEPT !.audio =
                        Def(Slice(Get(inputAudioBuffer), startIndex, endIndex))]
               ELSE sp1
    IN Ret([s EXCEPT !.queuedSpeechItems[item_id] = Def(sp2)], Undef, NoDelta)

response_created(s, event, args) ==
    LET response == event.response
    IN IF ~IsDef(s.responseLookup[response.id])
       THEN Ret([s EXCEPT !.responseLookup[response.id] = Def(response),
                          !.responses = Append(@, response.id)],
                Undef, NoDelta)
       ELSE Ret(s, Undef, NoDelta)

\* variant: the id goes into the output without the item being registered
response_output_item_added_noRegister(s, event, args) ==
    LET item == event.item
        response == s.responseLookup[event.response_id]
        h == NewRef(s)
        s2 == PutObj(s, h, MkItem(item, item.status, item.arguments, EmptyFormatted))
        s3 == [s2 EXCEPT !.responseLookup[event.response_id] =
                  Def([Get(@) EXCEPT !.output = Def(Append(Get(@), item.id))])]
    IN IF ~IsDef(response) THEN Ret(s, Undef, NoDelta)
       ELSE IF ~IsDef(Get(response).output) THEN Throw(s2)
       ELSE Ret(s3, Def(h), NoDelta)

\* variant: the item is registered before the response is looked up
response_output_item_added_registersFirst(s, event, args) ==
    LET item == event.item
        response == s.responseLookup[event.response_id]
        h == NewRef(s)
        s1 == IF s.itemLookup[item.id] = {}
              THEN [s EXCEPT !.itemLookup[item.id] = Def(h), !.items = Append(@, h)]
              ELSE s
        s2 == PutObj(s1, h, MkItem(item, item.status, item.arguments, EmptyFormatted))
        s3 == [s2 EXCEPT !.responseLookup[event.response_id] =
                  Def([Get(@) EXCEPT !.output = Def(Append(Get(@), item.id))])]
    IN IF ~IsDef(response) THEN Ret(s2, Undef, NoDelta)
       ELSE IF ~IsDef(Get(response).output) THEN Throw(s2)
       ELSE Ret(s3, Def(h), NoDelta)

response_output_item_added(s, event, args) ==
    LET item == event.item
        response == s.responseLookup[event.response_id]
        h == NewRef(s)
        s1 == IF s.itemLookup[item.id] = {}
              THEN [s EXCEPT !.itemLookup[item.id] = Def(h), !.items = Append(@, h)]
              ELSE s
        s2 == PutObj(s1, h, MkItem(item, item.status, item.arguments, EmptyFormatted))
        s3 == [s2 EXCEPT !.responseLookup[event.response_id] =
                  Def([Get(@) EXCEPT !.output = Def(Append(Get(@), item.id))])]
    IN IF ~IsDef(response) THEN Ret(s, Undef, NoDelta)
       ELSE IF ~IsDef(Get(response).output) THEN Throw(s2)
       ELSE Ret(s3, Def(h), NoDelta)

response_output_item_done(s, event, args) ==
    LET item == event.item
        ref == s.itemLookup[Get(item).id]
        o == s.heap[Get(ref)]
    IN IF ~IsDef(item) THEN Ret(s, Undef, NoDelta)
       ELSE IF ~IsDef(ref) THEN Ret(s, Undef, NoDelta)
       ELSE Ret(PutObj(s, Get(ref), [o EXCEPT !.status = Get(item).status]),
                ref, NoDelta)

response_content_part_added(s, event, args) ==
    LET ref == s.itemLookup[event.item_id]
        o == s.heap[Get(ref)]
    IN IF ~IsDef(ref) THEN Ret(s, Undef, NoDelta)
       ELSE IF ~HasContent(o) THEN Throw(s)
       ELSE Ret(PutObj(s, Get(ref),
                       [o EXCEPT !.content = Def(Append(Get(@), event.part))]),
                ref, NoDelta)

response_audio_transcript_delta(s, event, args) ==
    LET item_id == event.item_id
        ci == event.content_index
        delta == event.delta
        ref == s.itemLookup[item_id]
        q0 == IF IsDef(s.queuedTranscriptItems[item_id])
              THEN Get(s.queuedTranscriptItems[item_id])
              ELSE [transcript |-> Def(<< >>), arguments |-> Undef]
        queued == [s EXCEPT !.queuedTranscriptItems[item_id] =
                      Def([q0 EXCEPT !.transcript = Def(Str(@) \o delta)])]
        o == s.heap[Get(ref)]
        part == PartOf(o, ci)
        part1 == IF ~IsDef(part.transcript)
                 THEN [part EXCEPT !.transcript = Def(<< >>)] ELSE part
        o1 == SetPart(o, ci, [part1 EXCEPT !.transcript = Def(Get(@) \o delta)])
    IN IF ~IsDef(ref) THEN Ret(queued, Undef, NoDelta)
       ELSE IF ~HasPart(o, ci) THEN Throw(s)
       ELSE Ret(PutObj(s, Get(ref),
                       [o1 EXCEPT !.formatted.transcript = Def(Str(@) \o delta)]),
                ref, DeltaOf(Undef, Def(delta), Undef, Undef))

response_output_audio_transcript_delta(s, event, args) ==
    LET item_id == event.item_id
        ci == event.content_index
        delta == event.delta
        ref == s.itemLookup[item_id]
        q0 == IF IsDef(s.queuedTranscriptItems[item_id])
              THEN Get(s.queuedTranscriptItems[item_id])
              ELSE [transcript |-> Def(<< >>), arguments |-> Undef]
        queued == [s EXCEPT !.queuedTranscriptItems[item_id] =
                      Def([q0 EXCEPT !.transcript = Def(Str(@) \o delta)])]
        o == s.heap[Get(ref)]
        part == PartOf(o, ci)
        part1 == IF ~IsDef(part.transcript)
                 THEN [part EXCEPT !.transcript = Def(<< >>)] ELSE part
        o1 == SetPart(o, ci, [part1 EXCEPT !.transcript = Def(Get(@) \o delta)])
    IN IF ~IsDef(ref) THEN Ret(queued, Undef, NoDelta)
       ELSE IF ~HasPart(o, ci) THEN Throw(s)
       ELSE Ret(PutObj(s, Get(ref),
                       [o1 EXCEPT !.formatted.transcript = Def(Str(@) \o delta)]),
                ref, DeltaOf(Undef, Def(delta), Undef, Undef))

\* variant: the returned delta is the accumulated audio, not the chunk
response_audio_delta_cumulative(s, event, args) ==
    LET item_id == event.item_id
        delta == event.delta
        ref == s.itemLookup[item_id]
        sp0 == IF IsDef(s.queuedSpeechItems[item_id])
               THEN Get(s.queuedSpeechItems[item_id])
               ELSE [audio_start_ms |-> Undef, audio_end_ms |-> Undef,
                     audio |-> Def(<< >>)]
        appendValues == Int16Array(base64ToArrayBuffer(delta))
        o == s.heap[Get(ref)]
        merged == mergeInt16Arrays(o.formatted.audio, appendValues)
    IN IF ~IsDef(ref)
       THEN (IF ~IsDef(sp0.audio) THEN Throw(s)
             ELSE Ret([s EXCEPT !.queuedSpeechItems[item_id] =
                          Def([sp0 EXCEPT !.audio =
                                  Def(mergeInt16Arrays(Get(@), appendValues))])],
                      Undef, NoDelta))
       ELSE Ret(PutObj(s, Get(ref), [o EXCEPT !.formatted.audio = merged]),
                ref, DeltaOf(Undef, Undef, Def(merged), Undef))

\* mergeInt16Arrays accepts Int16Arrays only: with a pending segment that has
\* no audio yet the merge throws
response_audio_delta(s, event, args) ==
    LET item_id == event.item_id
        delta == event.delta
        ref == s.itemLookup[item_id]
        sp0 == IF IsDef(s.queuedSpeechItems[item_id])
               THEN Get(s.queuedSpeechItems[item_id])
               ELSE [audio_start_ms |-> Undef, audio_end_ms |-> Undef,
                     audio |-> Def(<< >>)]
        appendValues == Int16Array(base64ToArrayBuffer(delta))
        o == s.heap[Get(ref)]
    IN IF ~IsDef(ref)
       THEN (IF ~IsDef(sp0.audio) THEN Throw(s)
             ELSE Ret([s EXCEPT !.queuedSpeechItems[item_id] =
                          Def([sp0 EXCEPT !.audio =
                                  Def(mergeInt16Arrays(Get(@), appendValues))])],
                      Undef, NoDelta))
       ELSE Ret(PutObj(s, Get(ref),
                       [o EXCEPT !.formatted.audio =
                            mergeInt16Arrays(@, appendValues)]),
                ref, DeltaOf(Undef, Undef, Def(appendValues), Undef))

\* variant: the chunk replaces the item's audio instead of extending it
response_output_audio_delta_replaces(s, event, args) ==
    LET item_id == event.item_id
        delta == event.delta
        ref == s.itemLookup[item_id]
        sp0 == IF IsDef(s.queuedSpeechItems[item_id])
               THEN Get(s.queuedSpeechItems[item_id])
               ELSE [audio_start_ms |-> Undef, audio_end_ms |-> Undef,
                     audio |-> Def(<< >>)]
        appendValues == Int16Array(base64ToArrayBuffer(delta))
        o == s.heap[Get(ref)]
    IN IF ~IsDef(ref)
       THEN (IF ~IsDef(sp0.audio) THEN Throw(s)
             ELSE Ret([s EXCEPT !.queuedSpeechItems[item_id] =
                          Def([sp0 EXCEPT !.audio =
                                  Def(mergeInt16Arrays(Get(@), appendValues))])],
                      Undef, NoDelta))
       ELSE Ret(PutObj(s, Get(ref), [o EXCEPT !.formatted.audio = appendValues]),
                ref, DeltaOf(Undef, Undef, Def(appendValues), Undef))

response_output_audio_delta(s, event, args) ==
    LET item_id == event.item_id
        delta == event.delta
        ref == s.itemLookup[item_id]
        sp0 == IF IsDef(s.queuedSpeechItems[item_id])
               THEN Get(s.queuedSpeechItems[item_id])
               ELSE [audio_start_ms |-> Undef, audio_end_ms |-> Undef,
                     audio |-> Def(<< >>)]
        appendValues == Int16Array(base64ToArrayBuffer(delta))
        o == s.heap[Get(ref)]
    IN IF ~IsDef(ref)
       THEN (IF ~IsDef(sp0.audio) THEN Throw(s)
             ELSE Ret([s EXCEPT !.queuedSpeechItems[item_id] =
                          Def([sp0 EXCEPT !.audio =
                                  Def(mergeInt16Arrays(Get(@), appendValues))])],
                      Undef, NoDelta))
       ELSE Ret(PutObj(s, Get(ref),
                       [o EXCEPT !.formatted.audio =
                            mergeInt16Arrays(@, appendValues)]),
                ref, DeltaOf(Undef, Undef, Def(appendValues), Undef))

\* variant: the queued fragment is also returned as a delta
response_text_delta_deltaWhenQueued(s, event, args) ==
    LET item_id == event.item_id
        ci == event.content_index
        delta == event.delta
        ref == s.itemLookup[item_id]
        q0 == IF IsDef(s.queuedTranscriptItems[item_id])
              THEN Get(s.queuedTranscriptItems[item_id])
              ELSE [transcript |-> Def(<< >>), arguments |-> Undef]
        queued == [s EXCEPT !.queuedTranscriptItems[item_id] =
                      Def([q0 EXCEPT !.transcript = Def(Str(@) \o delta)])]
        o == s.heap[Get(ref)]
        part == PartOf(o, ci)
        part1 == IF ~IsDef(part.text)
                 THEN [part EXCEPT !.text = Def(<< >>)] ELSE part
        o1 == SetPart(o, ci, [part1 EXCEPT !.text = Def(Get(@) \o delta)])
    IN IF ~IsDef(ref) THEN Ret(queued, Undef, DeltaOf(Def(delta), Undef, Undef, Undef))
       ELSE IF ~HasPart(o, ci) THEN Throw(s)
       ELSE Ret(PutObj(s, Get(ref),
                       [o1 EXCEPT !.formatted.text = @ \o delta]),
                ref, DeltaOf(Def(delta), Undef, Undef, Undef))

response_text_delta(s, event, args) ==
    LET item_id == event.item_id
        ci == event.content_index
        delta == event.delta
        ref == s.itemLookup[item_id]
        q0 == IF IsDef(s.queuedTranscriptItems[item_id])
              THEN Get(s.queuedTranscriptItems[item_id])
              ELSE [transcript |-> Def(<< >>), arguments |-> Undef]
        queued == [s EXCEPT !.queuedTranscriptItems[item_id] =
                      Def([q0 EXCEPT !.transcript = Def(Str(@) \o delta)])]
        o == s.heap[Get(ref)]
        part == PartOf(o, ci)
        part1 == IF ~IsDef(part.text)
                 THEN [part EXCEPT !.text = Def(<< >>)] ELSE part
        o1 == SetPart(o, ci, [part1 EXCEPT !.text = Def(Get(@) \o delta)])
    IN IF ~IsDef(ref) THEN Ret(queued, Undef, NoDelta)
       ELSE IF ~HasPart(o, ci) THEN Throw(s)
       ELSE Ret(PutObj(s, Get(ref),
                       [o1 EXCEPT !.formatted.text = @ \o delta]),
                ref, DeltaOf(Def(delta), Undef, Undef, Undef))

response_output_text_delta(s, event, args) ==
    LET item_id == event.item_id
        ci == event.content_index
        delta == event.delta
        ref == s.itemLookup[item_id]
        q0 == IF IsDef(s.queuedTranscriptItems[item_id])
              THEN Get(s.queuedTranscriptItems[item_id])
              ELSE [transcript |-> Def(<< >>), arguments |-> Undef]
        queued == [s EXCEPT !.queuedTranscriptItems[item_id] =
                      Def([q0 EXCEPT !.transcript = Def(Str(@) \o delta)])]
        o == s.heap[Get(ref)]
        part == PartOf(o, ci)
        part1 == IF ~IsDef(part.text)
                 THEN [part EXCEPT !.text = Def(<< >>)] ELSE part
        o1 == SetPart(o, ci, [part1 EXCEPT !.text = Def(Get(@) \o delta)])
    IN IF ~IsDef(ref) THEN Ret(queued, Undef, NoDelta)
       ELSE IF ~HasPart(o, ci) THEN Throw(s)
       ELSE Ret(PutObj(s, Get(ref),
                       [o1 EXCEPT !.formatted.text = @ \o delta]),
                ref, DeltaOf(Def(delta), Undef, Undef, Undef))

response_function_call_arguments_delta(s, event, args) ==
    LET item_id == event.item_id
        delta == event.delta
        ref == s.itemLookup[item_id]
        q0 == IF IsDef(s.queuedTranscriptItems[item_id])
              THEN Get(s.queuedTranscriptItems[item_id])
              ELSE [transcript |-> Undef, arguments |-> Def(<< >>)]
        queued == [s EXCEPT !.queuedTranscriptItems[item_id] =
                      Def([q0 EXCEPT !.arguments =
                              Def((IF Truthy(@) THEN Get(@) ELSE << >>) \o delta)])]
        o == s.heap[Get(ref)]
        \* line 360: item.arguments += delta
        o1 == [o EXCEPT !.arguments = Def(Str(@) \o delta)]
        \* line 361: item.formatted.tool.arguments += delta
        o2 == [o1 EXCEPT !.formatted.tool =
                  Def([Get(@) EXCEPT !.arguments = @ \o delta])]
    IN IF ~IsDef(ref) THEN Ret(queued, Undef, NoDelta)
       ELSE IF ~IsDef(o.formatted.tool) THEN Throw(PutObj(s, Get(ref), o1))
       ELSE Ret(PutObj(s, Get(ref), o2), ref,
                DeltaOf(Undef, Undef, Undef, Def(delta)))

(* ---------------------------------------------------------------------- *)
(* RealtimeConversation methods                                           *)
(* ---------------------------------------------------------------------- *)

setAudioFormat(s, format) ==
    [s EXCEPT !.audioFormat = format, !.defaultFrequency = getSampleRate(format)]

clear(s) ==
    [s EXCEPT !.itemLookup = [i \in Ids |-> Undef], !.items = << >>,
              !.responseLookup = [r \in RIds |-> Undef], !.responses = << >>,
              !.queuedSpeechItems = [i \in Ids |-> Undef],
              !.queuedTranscriptItems = [i \in Ids |-> Undef],
              !.queuedInputAudio = Undef, !.heap = << >>]

queueInputAudio(s, inputAudio) == [s EXCEPT !.queuedInputAudio = Def(inputAudio)]

HandlerNames ==
    {"conversation.item.created", "conversation.item.added",
     "conversation.item.done", "conversation.item.truncated",
     "conversation.item.deleted",
     "conversation.item.input_audio_transcription.completed",
     "input_audio_buffer.speech_started", "input_audio_buffer.speech_stopped",
     "response.created", "response.output_item.added",
     "response.output_item.done", "response.content_part.added",
     "response.audio_transcript.delta", "response.output_audio_transcript.delta",
     "response.audio.delta", "response.output_audio.delta",
     "response.text.delta", "response.output_text.delta",
     "response.function_call_arguments.delta"}

\* this.EventProcessors[event.type].call(this, event, ...args)
EventProcessors(type, s, event, args) ==
    CASE type = "conversation.item.created" -> conversation_item_created(s, event, args)
      [] type = "conversation.item.added" -> conversation_item_added(s, event, args)
      [] type = "conversation.item.done" -> conversation_item_done(s, event, args)
      [] type = "conversation.item.truncated" -> conversation_item_truncated(s, event, args)
      [] type = "conversation.item.deleted" -> conversation_item_deleted(s, event, args)
      [] type = "conversation.item.input_audio_transcription.completed" ->
            conversation_item_input_audio_transcription_completed(s, event, args)
      [] type = "input_audio_buffer.speech_started" ->
            input_audio_buffer_speech_started(s, event, args)
      [] type = "input_audio_buffer.speech_stopped" ->
            input_audio_buffer_speech_stopped(s, event, args)
      [] type = "response.created" -> response_created(s, event, args)
      [] type = "response.output_item.added" -> response_output_item_added(s, event, args)
      [] type = "response.output_item.done" -> response_output_item_done(s, event, args)
      [] type = "response.content_part.added" -> response_content_part_added(s, event, args)
      [] type = "response.audio_transcript.delta" ->
            response_audio_transcript_delta(s, event, args)
      [] type = "response.output_audio_transcript.delta" ->
            response_output_audio_transcript_delta(s, event, args)
      [] type = "response.audio.delta" -> response_audio_delta(s, event, args)
      [] type = "response.output_audio.delta" -> response_output_audio_delta(s, event, args)
      [] type = "response.text.delta" -> response_text_delta(s, event, args)
      [] type = "response.output_text.delta" -> response_output_text_delta(s, event, args)
      [] type = "response.function_call_arguments.delta" ->
            response_function_call_arguments_delta(s, event, args)

\* !event.event_id, !event.type: undefined and "" are both falsy
Falsy(x) == x = {} \/ x = {""}

\* variant: the event_id check is left out
processEvent_noEventIdCheck(s, event, args) ==
    IF Falsy(event.type) THEN Throw(s)
    ELSE IF Get(event.type) \notin HandlerNames THEN Throw(s)
    ELSE EventProcessors(Get(event.type), s, event, args)

processEvent(s, event, args) ==
    IF Falsy(event.event_id) THEN Throw(s)
    ELSE IF Falsy(event.type) THEN Throw(s)
    ELSE IF Get(event.type) \notin HandlerNames THEN Throw(s)
    ELSE EventProcessors(Get(event.type), s, event, args)

getItem(s, id) == s.itemLookup[id]

getItems(s) == s.items

(* ---------------------------------------------------------------------- *)
(* Events fed to the store                                                *)
(* ---------------------------------------------------------------------- *)

Part(type, text, transcript, audio) ==
    [type |-> type, text |-> text, transcript |-> transcript, audio |-> audio]

Item(id, type, role, status, content, name, call_id, arguments, output) ==
    [id |-> id, type |-> type, role |-> role, status |-> status,
     content |-> content, name |-> name, call_id |-> call_id,
     arguments |-> arguments, output |-> output]

\* audio deltas: base64 text and the pcm16 samples it encodes
AudioChunks ==
    { [b64 |-> <<"A","Q","A","=">>, samples |-> <<1>>],
      [b64 |-> <<"/","v","8","D","A","A","=","=">>, samples |-> <<-2, 3>>] }
AudioDeltas == {c.b64 : c \in AudioChunks}
SamplesOf(b64) == (CHOOSE c \in AudioChunks : c.b64 = b64).samples
TextDeltas == { <<"a">>, <<"b">> }
\* a caller's input audio buffer of 30 samples 1, 2, ..., 30
InputBuffer == [i \in 1..30 |-> i]

UserMessage(id) ==
    Item(id, "message", Def("user"), Undef,
         Def(<<Part("input_audio", Undef, Undef, Undef)>>),
         Undef, Undef, Undef, Undef)
AssistantMessage(id) ==
    Item(id, "message", Def("assistant"), Def("in_progress"), Def(<< >>),
         Undef, Undef, Undef, Undef)
AssistantMessageDone(id) ==
    Item(id, "message", Def("assistant"), Def("completed"),
         Def(<<Part("text", Def(<<"a">>), Undef, Undef),
               Part("audio", Undef, Def(<<"b">>), Def(<<"A","Q","A","=">>))>>),
         Undef, Undef, Undef, Undef)
FunctionCall(id) ==
    Item(id, "function_call", Undef, Def("in_progress"), Undef,
         Def(<<"f">>), Def(<<"c">>), Def(<< >>), Undef)
FunctionCallOutput(id) ==
    Item(id, "function_call_output", Undef, Undef, Undef,
         Undef, Def(<<"c">>), Undef, Def(<<"o">>))

ItemShapes(id) ==
    {UserMessage(id), AssistantMessage(id), AssistantMessageDone(id),
     FunctionCall(id), FunctionCallOutput(id)}

\* the payloads the events of a behaviour carry
ItemPayloads(id) ==
    IF id \in MainIds THEN ItemShapes(id) ELSE {AssistantMessage(id)}

ItemEvent(type, item) ==
    [event_id |-> Def("evt"), type |-> Def(type), item |-> item]

(* ---------------------------------------------------------------------- *)
(* The state machine                                                      *)
(* ---------------------------------------------------------------------- *)

\* fed[id]: the fragments processed for id since it was last unregistered
\* and cleared, by kind, in arrival order (a history of the event stream,
\* no field of the store)
EmptyFed == [text |-> << >>, transcript |-> << >>, arguments |-> << >>,
             audio |-> << >>]

\* a new RealtimeConversation (constructor, clear, field initialisers)
ConversationConstructed ==
    /\ itemLookup = [i \in Ids |-> Undef]
    /\ items = << >>
    /\ responseLookup = [r \in RIds |-> Undef]
    /\ responses = << >>
    /\ queuedSpeechItems = [i \in Ids |-> Undef]
    /\ queuedTranscriptItems = [i \in Ids |-> Undef]
    /\ queuedInputAudio = Undef
    /\ defaultFrequency = 24000
    /\ audioFormat = "pcm16"
    /\ heap = << >>
    /\ fed = [i \in Ids |-> EmptyFed]
    /\ nEvents = 0

\* a socket the API has not made yet
NoSocket == [phase |-> "absent", onError |-> "none", onClose |-> FALSE]

SocketIds == {1, 2}

\* a new RealtimeAPI: no socket held
ApiConstructed ==
    /\ ws = Undef
    /\ sockets = [k \in SocketIds |-> NoSocket]
    /\ pendingConnects = 0
    /\ effects = << >>
    /\ nCalls = 0

Init ==
    /\ ConversationConstructed
    /\ platform = "node"
    /\ ApiConstructed

\* the store after a call; of the heap, the objects the store still holds
Commit(s, f) ==
    /\ nEvents' = nEvents + 1
    /\ itemLookup' = s.itemLookup
    /\ items' = s.items
    /\ responseLookup' = s.responseLookup
    /\ responses' = s.responses
    /\ queuedSpeechItems' = s.queuedSpeechItems
    /\ queuedTranscriptItems' = s.queuedTranscriptItems
    /\ queuedInputAudio' = s.queuedInputAudio
    /\ defaultFrequency' = s.defaultFrequency
    /\ audioFormat' = s.audioFormat
    /\ heap' = [r \in LiveRefs(s) \cap DOMAIN s.heap |-> s.heap[r]]
    /\ fed' = [i \in Ids |-> IF IsDef(s.itemLookup[i]) THEN EmptyFed ELSE f[i]]
    /\ UNCHANGED apiVars

\* processEvent(event, ...args)
Call(event, args) == Commit(processEvent(Store, event, args).s, fed)

\* processEvent(event) for a fragment of the given kind
CallDelta(event, kind, fragment) ==
    LET r == processEvent(Store, event, Undef)
    IN Commit(r.s,
              IF r.raised THEN fed
              ELSE [fed EXCEPT ![event.item_id][kind] = @ \o fragment])

ItemCreated ==
    \E id \in Ids : \E item \in ItemPayloads(id) :
        /\ nEvents < MaxEvents
        /\ Call(ItemEvent("conversation.item.created", item), Undef)

ItemAdded ==
    \E id \in MainIds : \E item \in ItemPayloads(id) :
        /\ nEvents < MaxEvents
        /\ Call(ItemEvent("conversation.item.added", item), Undef)

ItemDone ==
    \E id \in MainIds : \E item \in ItemPayloads(id) :
        /\ nEvents < MaxEvents
        /\ Call(ItemEvent("conversation.item.done", item), Undef)

TruncatedEvent(id, ms) ==
    [event_id |-> Def("evt"), type |-> Def("conversation.item.truncated"),
     item_id |-> id, content_index |-> 0, audio_end_ms |-> ms]

TruncateTimes == {0, 1}

ItemTruncated ==
    \E id \in MainIds : \E ms \in TruncateTimes :
        /\ nEvents < MaxEvents
        /\ Call(TruncatedEvent(id, ms), Undef)

DeletedEvent(id) ==
    [event_id |-> Def("evt"), type |-> Def("conversation.item.deleted"),
     item_id |-> id]

ItemDeleted ==
    \E id \in Ids :
        /\ nEvents < MaxEvents
        /\ Call(DeletedEvent(id), Undef)

TranscriptionCompletedEvent(id, transcript) ==
    [event_id |-> Def("evt"),
     type |-> Def("conversation.item.input_audio_transcription.completed"),
     item_id |-> id, content_index |-> 0, transcript |-> transcript]

Transcripts == {Undef, Def(<< >>), Def(<<"a">>)}

TranscriptionCompleted ==
    \E id \in MainIds : \E transcript \in Transcripts :
        /\ nEvents < MaxEvents
        /\ Call(TranscriptionCompletedEvent(id, transcript), Undef)

SpeechStartedEvent(id, ms) ==
    [event_id |-> Def("evt"), type |-> Def("input_audio_buffer.speech_started"),
     item_id |-> id, audio_start_ms |-> ms]

SpeechStartTimes == {0, 1}

SpeechStarted ==
    \E id \in MainIds : \E ms \in SpeechStartTimes :
        /\ nEvents < MaxEvents
        /\ Call(SpeechStartedEvent(id, ms), Undef)

SpeechStoppedEvent(id, ms) ==
    [event_id |-> Def("evt"), type |-> Def("input_audio_buffer.speech_stopped"),
     item_id |-> id, audio_end_ms |-> ms]

SpeechStopTimes == {1, 2}
InputBuffers == {Undef, Def(InputBuffer)}

SpeechStopped ==
    \E id \in MainIds : \E ms \in SpeechStopTimes : \E buffer \in InputBuffers :
        /\ nEvents < MaxEvents
        /\ Call(SpeechStoppedEvent(id, ms), buffer)

ResponseCreatedEvent(rid, output) ==
    [event_id |-> Def("evt"), type |-> Def("response.created"),
     response |-> [id |-> rid, output |-> output]]

ResponseOutputs == {Undef, Def(<< >>)}

ResponseCreated ==
    \E rid \in RIds : \E output \in ResponseOutputs :
        /\ nEvents < MaxEvents
        /\ Call(ResponseCreatedEvent(rid, output), Undef)

OutputItemAddedEvent(rid, item) ==
    [event_id |-> Def("evt"), type |-> Def("response.output_item.added"),
     response_id |-> rid, item |-> item]

OutputItemAdded ==
    \E rid \in RIds : \E id \in MainIds : \E item \in ItemPayloads(id) :
        /\ nEvents < MaxEvents
        /\ Call(OutputItemAddedEvent(rid, item), Undef)

OutputItemDoneEvent(item) ==
    [event_id |-> Def("evt"), type |-> Def("response.output_item.done"),
     item |-> item]

Statuses == {Undef, Def("completed"), Def("in_progress")}
DoneItems(ids) ==
    {Def([id |-> id, status |-> status]) : id \in ids, status \in Statuses}

OutputItemDone ==
    \E item \in {Undef} \cup DoneItems(MainIds) :
        /\ nEvents < MaxEvents
        /\ Call(OutputItemDoneEvent(item), Undef)

ContentPartAddedEvent(id, part) ==
    [event_id |-> Def("evt"), type |-> Def("response.content_part.added"),
     item_id |-> id, part |-> part]

Parts == {Part("text", Undef, Undef, Undef), Part("audio", Undef, Undef, Undef)}

ContentPartAdded ==
    \E id \in MainIds : \E part \in Parts :
        /\ nEvents < MaxEvents
        /\ Call(ContentPartAddedEvent(id, part), Undef)

DeltaEvent(type, id, ci, delta) ==
    [event_id |-> Def("evt"), type |-> Def(type), item_id |-> id,
     content_index |-> ci, delta |-> delta]

ContentIndexes == {0, 1}

AudioTranscriptDelta ==
    \E id \in Ids : \E ci \in ContentIndexes : \E delta \in TextDeltas :
        /\ nEvents < MaxEvents
        /\ CallDelta(DeltaEvent("response.audio_transcript.delta", id, ci, delta),
                  "transcript", delta)

OutputAudioTranscriptDelta ==
    \E id \in MainIds : \E ci \in ContentIndexes : \E delta \in TextDeltas :
        /\ nEvents < MaxEvents
        /\ CallDelta(DeltaEvent("response.output_audio_transcript.delta", id, ci, delta),
                  "transcript", delta)

AudioDelta ==
    \E id \in MainIds : \E delta \in AudioDeltas :
        /\ nEvents < MaxEvents
        /\ CallDelta(DeltaEvent("response.audio.delta", id, 0, delta),
                  "audio", SamplesOf(delta))

OutputAudioDelta ==
    \E id \in MainIds : \E delta \in AudioDeltas :
        /\ nEvents < MaxEvents
        /\ CallDelta(DeltaEvent("response.output_audio.delta", id, 0, delta),
                  "audio", SamplesOf(delta))

TextDelta ==
    \E id \in MainIds : \E ci \in ContentIndexes : \E delta \in TextDeltas :
        /\ nEvents < MaxEvents
        /\ CallDelta(DeltaEvent("response.text.delta", id, ci, delta), "text", delta)

OutputTextDelta ==
    \E id \in MainIds : \E ci \in ContentIndexes : \E delta \in TextDeltas :
        /\ nEvents < MaxEvents
        /\ CallDelta(DeltaEvent("response.output_text.delta", id, ci, delta), "text", delta)

FunctionCallArgumentsDelta ==
    \E id \in MainIds : \E delta \in TextDeltas :
        /\ nEvents < MaxEvents
        /\ CallDelta(DeltaEvent("response.function_call_arguments.delta", id, 0, delta),
                  "arguments", delta)

\* events processEvent rejects: no event_id, no type, a type without handler
MalformedEvents ==
    { [event_id |-> Undef, type |-> Def("conversation.item.deleted"), item_id |-> "X"],
      [event_id |-> Def(""), type |-> Def("conversation.item.deleted"), item_id |-> "X"],
      [event_id |-> Def("evt"), type |-> Undef, item_id |-> "X"],
      [event_id |-> Def("evt"), type |-> Def(""), item_id |-> "X"],
      [event_id |-> Def("evt"), type |-> Def("session.created"), item_id |-> "X"] }

Malformed ==
    \E event \in MalformedEvents :
        /\ nEvents < MaxEvents
        /\ Call(event, Undef)

Clear ==
    /\ nEvents < MaxEvents
    /\ Commit(clear(Store), [i \in Ids |-> EmptyFed])

AudioFormats == {"pcm16", "g711_ulaw"}

SetAudioFormat ==
    \E format \in AudioFormats :
        /\ nEvents < MaxEvents
        /\ Commit(setAudioFormat(Store, format), fed)

QueueInputAudio ==
    \E inputAudio \in {InputBuffer, <<7, 8>>} :
        /\ nEvents < MaxEvents
        /\ Commit(queueInputAudio(Store, inputAudio), fed)

Next ==
    \/ ItemCreated \/ ItemAdded \/ ItemDone \/ ItemTruncated \/ ItemDeleted
    \/ TranscriptionCompleted \/ SpeechStarted \/ SpeechStopped
    \/ ResponseCreated \/ OutputItemAdded \/ OutputItemDone \/ ContentPartAdded
    \/ AudioTranscriptDelta \/ OutputAudioTranscriptDelta
    \/ AudioDelta \/ OutputAudioDelta \/ TextDelta \/ OutputTextDelta
    \/ FunctionCallArgumentsDelta
    \/ Malformed \/ Clear \/ SetAudioFormat \/ QueueInputAudio

Spec == Init /\ [][Next]_vars

(* ---------------------------------------------------------------------- *)
(* RealtimeAPI (lib/api.js)                                               *)
(*                                                                        *)
(* An event or channel name is the sequence of the segments of its dotted *)
(* form: "server.session.created" is <<"server", "session", "created">>   *)
(* and "server." is <<"server", "">>.                                     *)
(* ---------------------------------------------------------------------- *)

Api ==
    [platform |-> platform, ws |-> ws, sockets |-> sockets,
     pendingConnects |-> pendingConnects, effects |-> effects]

\* what a method hands back: the API it leaves and whether it threw
Done(a) == [a |-> a, raised |-> FALSE]
Raise(a) == [a |-> a, raised |-> TRUE]

\* a call the API makes on a collaborator, in the order the calls are made
Effect(a, e) == [a EXCEPT !.effects = Append(@, e)]

isConnected(a) == IsDef(a.ws)

\* this.log(label, ...): the label and the event name of the message
log(a, label, eventName) ==
    Effect(a, [op |-> "log", label |-> label, name |-> eventName])

\* RealtimeEventHandler.dispatch(eventName, event): the notification goes
\* to the listeners of eventName
dispatch(a, eventName, event) ==
    Effect(a, [op |-> "dispatch", name |-> eventName, event |-> event])

\* ws.close(): the socket starts closing; its close callback follows
wsClose(a, k) ==
    [Effect(a, [op |-> "ws.close", socket |-> k])
        EXCEPT !.sockets[k].phase =
                   IF @ \in {"connecting", "open"} THEN "closing" ELSE @]

\* ws.send(data)
wsSend(a, k, data) == Effect(a, [op |-> "ws.send", socket |-> k, data |-> data])

\* JSON.stringify(event): the text that encodes the event
JSONstringify(event) == [json |-> event]

disconnect(a, sock) ==
    IF ~IsDef(sock) \/ a.ws = sock
    THEN [(IF IsDef(a.ws) THEN wsClose(a, Get(a.ws)) ELSE a) EXCEPT !.ws = Undef]
    ELSE a

\* eventName.startsWith('server.')
startsWithServer(eventName) == Len(eventName) >= 2 /\ eventName[1] = "server"

\* the names receive does not log
isAudioDelta(eventName) ==
    eventName \in
        { <<"response", "audio", "delta">>,
          <<"response", "output_audio", "delta">>,
          <<"response", "audio_transcript", "delta">>,
          <<"response", "output_audio_transcript", "delta">>,
          <<"server", "response", "audio", "delta">>,
          <<"server", "response", "output_audio", "delta">>,
          <<"server", "response", "audio_transcript", "delta">>,
          <<"server", "response", "output_audio_transcript", "delta">> }

\* variant: every name is prefixed, also one that carries the prefix
receive_alwaysPrefix(a, eventName, event) ==
    LET a1 == IF ~isAudioDelta(eventName) THEN log(a, "received:", eventName) ELSE a
    IN dispatch(dispatch(a1, <<"server">> \o eventName, Def(event)),
                <<"server", "*">>, Def(event))

receive(a, eventName, event) ==
    LET a1 == IF ~isAudioDelta(eventName) THEN log(a, "received:", eventName) ELSE a
    IN IF startsWithServer(eventName)
       THEN dispatch(dispatch(a1, eventName, Def(event)),
                     <<"server", "*">>, Def(event))
       ELSE dispatch(dispatch(a1, <<"server">> \o eventName, Def(event)),
                     <<"server", "*">>, Def(event))

\* the data argument of send: absent, an object with its properties, or a
\* value that is no object
NoData == [kind |-> "undefined", fields |-> << >>]
ObjectData(fields) == [kind |-> "object", fields |-> fields]
StringData == [kind |-> "string", fields |-> << >>]

\* { event_id: generateId('evt_'), type: eventName, ...data }: a property
\* of data replaces the one of the same name
SentEvent(id, eventName, data) ==
    data.fields @@ [event_id |-> id, type |-> eventName]

\* variant: the event is handed to the socket before the connection is
\* looked at, and published only after
send_transmitsFirst(a, eventName, data, id) ==
    LET event == SentEvent(id, eventName, data)
        k == IF IsDef(a.ws) THEN Get(a.ws) ELSE 1
        a0 == wsSend(a, k, JSONstringify(event))
        a1 == dispatch(a0, <<"client">> \o eventName, Def(event))
        a2 == dispatch(a1, <<"client", "*">>, Def(event))
    IN IF ~isConnected(a) THEN Raise(a0)
       ELSE IF data.kind = "string" THEN Raise(a0)
       ELSE Done(a2)

\* id is the value RealtimeUtils.generateId('evt_') returns
send(a, eventName, data, id) ==
    LET event == SentEvent(id, eventName, data)
        a1 == dispatch(a, <<"client">> \o eventName, Def(event))
        a2 == dispatch(a1, <<"client", "*">>, Def(event))
        a3 == IF eventName # <<"input_audio_buffer", "append">>
              THEN log(a2, "sent:", eventName) ELSE a2
    IN IF ~isConnected(a) THEN Raise(a)
       ELSE IF data.kind = "string" THEN Raise(a)
       ELSE Done(wsSend(a3, Get(a3.ws), JSONstringify(event)))

\* connect(), up to the choice of the WebSocket implementation
connect_check(a) ==
    LET a1 == log(a, "URL:", << >>)
    IN IF isConnected(a1) THEN Raise(a1) ELSE Done(a1)

\* the socket connect() makes next
NewSocket(a) ==
    CHOOSE k \in SocketIds :
        /\ a.sockets[k].phase = "absent"
        /\ \A j \in SocketIds : j < k => a.sockets[j].phase # "absent"

\* new WebSocket(...) with its message, error and open listeners
connect_socket(a) ==
    LET a1 == IF a.platform = "browser"
              THEN log(log(a, "Connecting to URL:", << >>), "protocols", << >>)
              ELSE a
    IN [a1 EXCEPT !.sockets[NewSocket(a)] =
           [phase |-> "connecting", onError |-> "connecting", onClose |-> FALSE]]

\* the socket's open listener
socket_open(a, k) ==
    LET a1 == log(a, "Connected to", << >>)
        a2 == [a1 EXCEPT !.sockets[k].onError = "established",
                         !.sockets[k].onClose = TRUE,
                         !.ws = Def(k)]
    IN IF a.platform = "browser" THEN dispatch(a2, <<"connect">>, Undef) ELSE a2

\* connectionErrorHandler: the promise of connect() is rejected
connectionErrorHandler(a, k) == disconnect(a, Def(k))

\* the error listener of a socket that has opened
socket_error(a, k) ==
    dispatch(log(disconnect(a, Def(k)), "Error, disconnected from", << >>),
             <<"close">>, Def([error |-> TRUE]))

\* the close listener of a socket that has opened
socket_close(a, k) ==
    dispatch(log(disconnect(a, Def(k)), "Disconnected from", << >>),
             <<"close">>, Def([error |-> FALSE]))

\* the socket's message listener: JSON.parse, then receive(message.type, message)
socket_message(a, k, message) == receive(a, message.type, message)

(* ---------------------------------------------------------------------- *)
(* Calls and socket callbacks on the API                                  *)
(* ---------------------------------------------------------------------- *)

Platforms == {"browser", "node"}

InitAPI ==
    /\ ConversationConstructed
    /\ platform \in Platforms
    /\ ApiConstructed

\* the API after a call or a callback
CommitApi(a) ==
    /\ nCalls' = nCalls + 1
    /\ platform' = a.platform
    /\ ws' = a.ws
    /\ sockets' = a.sockets
    /\ pendingConnects' = a.pendingConnects
    /\ effects' = a.effects
    /\ UNCHANGED conversationVars

HasFreeSocket(a) == \E k \in SocketIds : a.sockets[k].phase = "absent"

\* connect(): in the browser the socket is made in the same turn; under
\* Node.js the call waits for import('ws') first
Connect ==
    /\ nCalls < MaxCalls
    /\ HasFreeSocket(Api)
    /\ LET r == connect_check(Api)
       IN IF r.raised THEN CommitApi(r.a)
          ELSE IF platform = "browser" THEN CommitApi(connect_socket(r.a))
          ELSE CommitApi([r.a EXCEPT !.pendingConnects = @ + 1])

\* connect() goes on after import('ws')
ConnectResume ==
    /\ nCalls < MaxCalls
    /\ pendingConnects > 0
    /\ HasFreeSocket(Api)
    /\ CommitApi(connect_socket([Api EXCEPT !.pendingConnects = @ - 1]))

SocketOpen ==
    \E k \in SocketIds :
        /\ nCalls < MaxCalls
        /\ sockets[k].phase = "connecting"
        /\ CommitApi(socket_open([Api EXCEPT !.sockets[k].phase = "open"], k))

\* an error on the socket: its error listener runs, and the socket closes
SocketError ==
    \E k \in SocketIds :
        /\ nCalls < MaxCalls
        /\ sockets[k].phase \in {"connecting", "open"}
        /\ LET a == [Api EXCEPT !.sockets[k].phase = "closing"]
           IN IF sockets[k].onError = "connecting"
              THEN CommitApi(connectionErrorHandler(a, k))
              ELSE CommitApi(socket_error(a, k))

\* the socket has closed: its close listener runs, if it has one
SocketClose ==
    \E k \in SocketIds :
        /\ nCalls < MaxCalls
        /\ sockets[k].phase \in {"open", "closing"}
        /\ LET a == [Api EXCEPT !.sockets[k].phase = "closed"]
           IN IF sockets[k].onClose THEN CommitApi(socket_close(a, k))
              ELSE CommitApi(a)

\* messages a server sends
Message(type) == [type |-> type, event_id |-> "event_1"]
ServerMessageTypes ==
    { <<"session", "created">>, <<"response", "audio", "delta">> }

SocketMessage ==
    \E k \in SocketIds : \E type \in ServerMessageTypes :
        /\ nCalls < MaxCalls
        /\ sockets[k].phase = "open"
        /\ CommitApi(socket_message(Api, k, Message(type)))

\* disconnect() as the application calls it
Disconnect ==
    /\ nCalls < MaxCalls
    /\ CommitApi(disconnect(Api, Undef))

\* names receive is called with by a provider that has normalized them
ReceivedNames ==
    { <<"server", "session", "created">>,
      <<"server", "response", "audio", "delta">>,
      <<"server">> }

Receive ==
    \E eventName \in ReceivedNames :
        /\ nCalls < MaxCalls
        /\ CommitApi(receive(Api, eventName, Message(eventName)))

SentNames == { <<"input_audio_buffer", "append">>, <<"response", "create">> }
SentData ==
    { NoData, ObjectData([audio |-> "AQA="]),
      ObjectData([type |-> <<"session", "update">>]), StringData }
GeneratedIds == {"evt_1", "evt_2"}

Send ==
    \E eventName \in SentNames : \E data \in {NoData, StringData} :
        /\ nCalls < MaxCalls
        /\ CommitApi(send(Api, eventName, data, "evt_1").a)

NextAPI ==
    \/ Connect \/ ConnectResume \/ SocketOpen \/ SocketError \/ SocketClose
    \/ SocketMessage \/ Disconnect \/ Receive \/ Send

SpecAPI == InitAPI /\ [][NextAPI]_vars

(* ---------------------------------------------------------------------- *)
(* Properties                                                             *)
(* ---------------------------------------------------------------------- *)

Registered(id) == IsDef(itemLookup[id])
CreationTypes == {"conversation.item.created", "conversation.item.added"}
Occurrences(seq, x) == Cardinality({i \in 1..Len(seq) : seq[i] = x})

\* C1: the lookup and the ordered sequence hold the same items: every id of
\* itemLookup appears exactly once in items, and every element of items is
\* the object stored in itemLookup under its id.
C1_LookupMatchesItems ==
    /\ \A id \in Ids :
          Registered(id) => Occurrences(items, Get(itemLookup[id])) = 1
    /\ \A i \in 1..Len(items) :
          /\ items[i] \in DOMAIN heap
          /\ heap[items[i]].id \in Ids
          /\ itemLookup[heap[items[i]].id] = Def(items[i])

\* two items were registered and the one registered first was deleted: the
\* object allocated second is alone in the sequence
C1_Witness ==
    /\ items = <<2>>
    /\ itemLookup["Y"] = Def(2)
    /\ ~Registered("X")

\* C2: a creation (item.created or item.added) for an id that is registered
\* adds no entry to the lookup or the sequence and leaves the stored item as
\* it was; the id stays registered exactly once.
C2_IdempotentCreation ==
    \A id \in Ids : \A item \in ItemShapes(id) : \A type \in CreationTypes :
        Registered(id) =>
            LET r == processEvent(Store, ItemEvent(type, item), Undef)
                ref == Get(itemLookup[id])
            IN /\ ~r.raised
               /\ r.s.itemLookup = itemLookup
               /\ r.s.items = items
               /\ r.s.heap[ref] = heap[ref]
               /\ Occurrences(r.s.items, ref) = 1

\* a registered item that a repeated creation with another payload would
\* change if it replaced it
C2_Witness ==
    /\ Registered("X")
    /\ heap[Get(itemLookup["X"])].formatted.text # << >>
    /\ Len(items) = 2

NoTextContent(item) ==
    ~IsDef(item.content)
    \/ \A i \in 1..Len(Get(item.content)) : Get(item.content)[i].type \notin TextTypes

\* C3: text deltas processed for an unregistered id, then item.created for
\* that id: the stored item's formatted.text is the concatenation of those
\* deltas in arrival order.
C3_TextFoldedOnCreation ==
    \A id \in Ids : \A item \in ItemShapes(id) :
        (~Registered(id) /\ fed[id].text # << >> /\ NoTextContent(item)) =>
            LET r == processEvent(Store,
                                  ItemEvent("conversation.item.created", item), Undef)
            IN /\ ~r.raised
               /\ IsDef(r.s.itemLookup[id])
               /\ ObjOf(r.s, id).formatted.text = fed[id].text

\* C4: no item id has both a registered item and a pending buffer.
C4_NoPendingForRegistered ==
    \A id \in Ids :
        Registered(id) =>
            /\ queuedSpeechItems[id] = Undef
            /\ queuedTranscriptItems[id] = Undef

\* C5: argument deltas processed for an unregistered id, then item.created
\* for that id with type function_call: the stored item is in_progress, its
\* formatted.tool.arguments and its arguments are the concatenation of the
\* queued deltas in arrival order, and the pending entry is removed.
C5_ArgumentsFoldedOnCreation ==
    \A id \in Ids :
        (~Registered(id) /\ fed[id].arguments # << >>) =>
            LET r == processEvent(Store,
                         ItemEvent("conversation.item.created", FunctionCall(id)),
                         Undef)
                o == ObjOf(r.s, id)
            IN /\ ~r.raised
               /\ IsDef(r.s.itemLookup[id])
               /\ o.status = Def("in_progress")
               /\ IsDef(o.formatted.tool)
               /\ Get(o.formatted.tool).arguments = fed[id].arguments
               /\ o.arguments = Def(fed[id].arguments)
               /\ r.s.queuedTranscriptItems[id] = Undef

NoOp == Ret(Store, Undef, NoDelta)

\* C7: item.truncated, item.deleted, content_part.added and output_item.done
\* for an unregistered item id, and output_item.added for an unregistered
\* response id, return {item: null, delta: null} without raising and leave
\* the store as it was.
C7_UnknownIdNoOp ==
    /\ \A id \in Ids :
          ~Registered(id) =>
              /\ \A ms \in TruncateTimes :
                    processEvent(Store, TruncatedEvent(id, ms), Undef) = NoOp
              /\ processEvent(Store, DeletedEvent(id), Undef) = NoOp
              /\ \A part \in Parts :
                    processEvent(Store, ContentPartAddedEvent(id, part), Undef) = NoOp
              /\ \A item \in DoneItems({id}) :
                    processEvent(Store, OutputItemDoneEvent(item), Undef) = NoOp
    /\ \A rid \in RIds : \A id \in Ids : \A item \in ItemShapes(id) :
          ~IsDef(responseLookup[rid]) =>
              processEvent(Store, OutputItemAddedEvent(rid, item), Undef) = NoOp

\* nothing registered under X or R, while the store holds another item and
\* pending buffers for X
C7_Witness ==
    /\ ~Registered("X") /\ Registered("Y")
    /\ ~IsDef(responseLookup["R"])
    /\ IsDef(queuedTranscriptItems["X"])

IncrementTypes ==
    {"response.text.delta", "response.output_text.delta",
     "response.audio_transcript.delta", "response.output_audio_transcript.delta",
     "response.audio.delta", "response.output_audio.delta",
     "response.function_call_arguments.delta",
     "conversation.item.input_audio_transcription.completed"}

ItemEventTypes ==
    {"conversation.item.created", "conversation.item.added", "conversation.item.done"}

TextDeltaTypes ==
    {"response.text.delta", "response.output_text.delta",
     "response.audio_transcript.delta", "response.output_audio_transcript.delta",
     "response.function_call_arguments.delta"}

AudioDeltaTypes == {"response.audio.delta", "response.output_audio.delta"}

\* a returned delta is an increment applied to an item registered before
DeltaContract(event, args, id) ==
    LET r == processEvent(Store, event, args)
    IN IsDef(r.delta) =>
          /\ ~r.raised
          /\ Get(event.type) \in IncrementTypes
          /\ Registered(id)

NoDeltaReturned(event) == processEvent(Store, event, Undef).delta = NoDelta

\* C8: the returned delta is non-null only for a text, transcript, audio or
\* arguments increment applied to an item that was registered when the
\* event arrived; it is null for creation, done, deletion, truncation,
\* speech-boundary and response-bookkeeping events and for every event
\* queued because its item id was not registered.
C8_DeltaOnlyForIncrementOnExisting ==
    /\ \A id \in Ids :
          /\ \A type \in ItemEventTypes : \A item \in ItemShapes(id) :
                DeltaContract(ItemEvent(type, item), Undef, id)
          /\ \A rid \in RIds : \A item \in ItemShapes(id) :
                DeltaContract(OutputItemAddedEvent(rid, item), Undef, id)
          /\ \A item \in DoneItems({id}) :
                DeltaContract(OutputItemDoneEvent(item), Undef, id)
          /\ \A ms \in TruncateTimes : DeltaContract(TruncatedEvent(id, ms), Undef, id)
          /\ DeltaContract(DeletedEvent(id), Undef, id)
          /\ \A transcript \in Transcripts :
                DeltaContract(TranscriptionCompletedEvent(id, transcript), Undef, id)
          /\ \A ms \in SpeechStartTimes :
                DeltaContract(SpeechStartedEvent(id, ms), Undef, id)
          /\ \A ms \in SpeechStopTimes : \A buffer \in InputBuffers :
                DeltaContract(SpeechStoppedEvent(id, ms), buffer, id)
          /\ \A part \in Parts : DeltaContract(ContentPartAddedEvent(id, part), Undef, id)
          /\ \A type \in TextDeltaTypes : \A ci \in ContentIndexes : \A d \in TextDeltas :
                DeltaContract(DeltaEvent(type, id, ci, d), Undef, id)
          /\ \A type \in AudioDeltaTypes : \A d \in AudioDeltas :
                DeltaContract(DeltaEvent(type, id, 0, d), Undef, id)
    /\ \A rid \in RIds : \A output \in ResponseOutputs :
          NoDeltaReturned(ResponseCreatedEvent(rid, output))
    /\ NoDeltaReturned(OutputItemDoneEvent(Undef))
    /\ \A event \in MalformedEvents : NoDeltaReturned(event)

\* increments for a registered item return a delta while those for an
\* unregistered one are queued
C8_Witness ==
    /\ Registered("X") /\ ~Registered("Y")
    /\ IsDef(queuedTranscriptItems["Y"])
    /\ \E d \in TextDeltas :
          IsDef(processEvent(Store, DeltaEvent("response.text.delta", "X", 0, d),
                             Undef).delta)

\* C9: response.audio.delta for a registered item appends its decoded chunk
\* to the end of formatted.audio and returns exactly that chunk as delta.
C9_AudioDeltaAppends ==
    \A id \in Ids : \A c \in AudioChunks :
        Registered(id) =>
            LET r == processEvent(Store,
                         DeltaEvent("response.audio.delta", id, 0, c.b64), Undef)
                ref == Get(itemLookup[id])
            IN /\ ~r.raised
               /\ r.s.itemLookup = itemLookup
               /\ r.s.heap[ref].formatted.audio = heap[ref].formatted.audio \o c.samples
               /\ r.item = Def(ref)
               /\ r.delta = DeltaOf(Undef, Undef, Def(c.samples), Undef)

\* a registered item to which two audio deltas were applied, so that a third
\* is appended behind accumulated audio
C9_Witness ==
    /\ Registered("X")
    /\ heap[Get(itemLookup["X"])].formatted.audio = <<1, -2, 3>>

\* C10: the two names of an event (audio delta, audio-transcript delta,
\* text delta, item creation) give the same store and the same return value
\* from the same prior store, for a registered and for an unregistered item.
C10_AliasEquivalence ==
    \A id \in Ids :
        /\ \A ci \in ContentIndexes : \A d \in TextDeltas :
              /\ processEvent(Store, DeltaEvent("response.text.delta", id, ci, d), Undef)
                 = processEvent(Store,
                       DeltaEvent("response.output_text.delta", id, ci, d), Undef)
              /\ processEvent(Store,
                       DeltaEvent("response.audio_transcript.delta", id, ci, d), Undef)
                 = processEvent(Store,
                       DeltaEvent("response.output_audio_transcript.delta", id, ci, d),
                       Undef)
        /\ \A d \in AudioDeltas :
              processEvent(Store, DeltaEvent("response.audio.delta", id, 0, d), Undef)
              = processEvent(Store,
                    DeltaEvent("response.output_audio.delta", id, 0, d), Undef)
        /\ \A item \in ItemShapes(id) :
              processEvent(Store, ItemEvent("conversation.item.created", item), Undef)
              = processEvent(Store, ItemEvent("conversation.item.added", item), Undef)

\* one item is registered with content parts and audio, the other is
\* unregistered with pending fragments
C10_Witness ==
    /\ Registered("X") /\ ~Registered("Y")
    /\ HasPart(heap[Get(itemLookup["X"])], 1)
    /\ IsDef(queuedTranscriptItems["Y"])

Min(a, b) == IF a < b THEN a ELSE b

\* C11: item.truncated on a registered item with audio of length L leaves
\* formatted.audio as its first min(L, floor(audio_end_ms * rate / 1000))
\* samples and formatted.transcript empty, where rate is the rate of the
\* format last set (24000 before any setAudioFormat); setAudioFormat changes
\* no stored item.
C11_TruncationArithmetic ==
    /\ defaultFrequency = getSampleRate(audioFormat)
    /\ \A id \in Ids : \A ms \in TruncateTimes :
          Registered(id) =>
              LET r == processEvent(Store, TruncatedEvent(id, ms), Undef)
                  ref == Get(itemLookup[id])
                  audio == heap[ref].formatted.audio
                  n == Min(Len(audio), (ms * defaultFrequency) \div 1000)
              IN /\ ~r.raised
                 /\ r.s.heap[ref].formatted.audio = SubSeq(audio, 1, n)
                 /\ r.s.heap[ref].formatted.transcript = Def(<< >>)
    /\ \A format \in AudioFormats :
          /\ setAudioFormat(Store, format).heap = heap
          /\ setAudioFormat(Store, format).items = items
          /\ setAudioFormat(Store, format).itemLookup = itemLookup

\* an item holding 30 samples while the rate is 8000 Hz: truncation at 1 ms
\* keeps 8 samples, where 24000 Hz would keep 24
C11_Witness ==
    /\ Registered("X")
    /\ Len(heap[Get(itemLookup["X"])].formatted.audio) = 30
    /\ defaultFrequency = 8000
    /\ Len(processEvent(Store, TruncatedEvent("X", 1), Undef)
               .s.heap[Get(itemLookup["X"])].formatted.audio) = 8

\* the store a new RealtimeConversation holds
InitialStore ==
    [itemLookup |-> [i \in Ids |-> Undef], items |-> << >>,
     responseLookup |-> [r \in RIds |-> Undef], responses |-> << >>,
     queuedSpeechItems |-> [i \in Ids |-> Undef],
     queuedTranscriptItems |-> [i \in Ids |-> Undef],
     queuedInputAudio |-> Undef,
     defaultFrequency |-> 24000, audioFormat |-> "pcm16",
     heap |-> << >>]

\* C12: after clear() the store equals its initial state (no item, no
\* response, no queued input audio, no pending buffer), so an item created
\* after clear() is the item the same creation gives on a new store.
C12_ClearRestoresInitial ==
    /\ clear(Store) = InitialStore
    /\ getItems(clear(Store)) = << >>
    /\ \A id \in Ids : \A item \in ItemShapes(id) :
          processEvent(clear(Store), ItemEvent("conversation.item.created", item), Undef)
          = processEvent(InitialStore, ItemEvent("conversation.item.created", item), Undef)

\* the output sequence of a response in a response lookup
OutputOf(lookup, rid) ==
    IF IsDef(lookup[rid]) /\ IsDef(Get(lookup[rid]).output)
    THEN Get(Get(lookup[rid]).output) ELSE << >>

\* C13: whenever a step adds an item id to the output of a registered
\* response, that id is registered in itemLookup when the step is done.
C13_OutputOnlyRegistered ==
    [][\A rid \in RIds :
          (IsDef(responseLookup[rid])
           /\ Len(OutputOf(responseLookup', rid)) > Len(OutputOf(responseLookup, rid)))
          => \A i \in (Len(OutputOf(responseLookup, rid)) + 1)
                        ..Len(OutputOf(responseLookup', rid)) :
                 IsDef(itemLookup'[OutputOf(responseLookup', rid)[i]])]_vars

\* a response whose output names an item that response.output_item.added
\* registered
C13_Witness ==
    /\ OutputOf(responseLookup, "R") = <<"X">>
    /\ Registered("X")
    /\ Len(items) = 1

\* C14: the status of a stored item only moves forward: no step takes an
\* item that is completed back to in_progress.
C14_StatusNeverRegresses ==
    [][\A id \in Ids :
          (/\ Registered(id)
           /\ heap[Get(itemLookup[id])].status = Def("completed")
           /\ itemLookup'[id] = itemLookup[id])
          => heap'[Get(itemLookup'[id])].status # Def("in_progress")]_vars

\* the properties of an item payload that may be absent
OptionalFields ==
    {"role", "status", "content", "name", "call_id", "arguments", "output"}

\* C15: item.done for an unregistered id does not raise and gives the store
\* and the return value of item.created with the same payload; for a
\* registered id it returns the stored object with every property of the
\* payload written over it, formatted and the rest of the store as before.
C15_DoneMergesOrCreates ==
    \A id \in Ids : \A item \in ItemShapes(id) :
        LET r == processEvent(Store, ItemEvent("conversation.item.done", item), Undef)
        IN IF ~Registered(id)
           THEN /\ ~r.raised
                /\ IsDef(r.s.itemLookup[id])
                /\ r = processEvent(Store,
                           ItemEvent("conversation.item.created", item), Undef)
           ELSE LET ref == Get(itemLookup[id])
                IN /\ ~r.raised
                   /\ r.item = Def(ref)
                   /\ r.delta = NoDelta
                   /\ r.s.itemLookup = itemLookup
                   /\ r.s.items = items
                   /\ r.s.queuedTranscriptItems = queuedTranscriptItems
                   /\ r.s.queuedSpeechItems = queuedSpeechItems
                   /\ r.s.heap[ref].formatted = heap[ref].formatted
                   /\ r.s.heap[ref].id = item.id
                   /\ r.s.heap[ref].type = item.type
                   /\ \A f \in OptionalFields :
                         r.s.heap[ref][f] = IF IsDef(item[f]) THEN item[f]
                                            ELSE heap[ref][f]

\* a registered function call, which a done event with a message payload
\* overwrites, and an unregistered id with a pending transcript, which a
\* done event creates
C15_Witness ==
    /\ Registered("X") /\ ~Registered("Y")
    /\ IsDef(heap[Get(itemLookup["X"])].formatted.tool)
    /\ IsDef(queuedTranscriptItems["Y"])

\* the calls the API made on its collaborators since the state a
\* (a prefix of b) held, and those of them that publish or transmit
NewEffects(a, b) == SubSeq(b.effects, Len(a.effects) + 1, Len(b.effects))
Dispatches(es) == SelectSeq(es, LAMBDA e : e.op = "dispatch")
Outward(es) == SelectSeq(es, LAMBDA e : e.op \in {"dispatch", "ws.send"})
Notification(eventName, event) ==
    [op |-> "dispatch", name |-> eventName, event |-> Def(event)]

\* inbound names and the fully-qualified channel of each
ReceiveCases ==
    { [name |-> <<"session", "created">>,
       channel |-> <<"server", "session", "created">>],
      [name |-> <<"server", "session", "created">>,
       channel |-> <<"server", "session", "created">>],
      [name |-> <<"response", "audio", "delta">>,
       channel |-> <<"server", "response", "audio", "delta">>],
      [name |-> <<"server", "response", "output_audio", "delta">>,
       channel |-> <<"server", "response", "output_audio", "delta">>],
      [name |-> <<"server">>, channel |-> <<"server", "server">>],
      [name |-> <<"server", "">>, channel |-> <<"server", "">>],
      [name |-> <<"servers", "ready">>,
       channel |-> <<"server", "servers", "ready">>] }

ReceivedPayloads(eventName) ==
    { Message(eventName), [type |-> <<"error">>, event_id |-> "event_2"] }

C17_SendPublishesThenTransmits ==
    \A eventName \in SentNames : \A data \in SentData : \A id \in GeneratedIds :
        LET r == send(Api, eventName, data, id)
            event == SentEvent(id, eventName, data)
        IN IF isConnected(Api) /\ data.kind # "string"
           THEN /\ ~r.raised
                /\ Outward(NewEffects(Api, r.a))
                     = << Notification(<<"client">> \o eventName, event),
                          Notification(<<"client", "*">>, event),
                          [op |-> "ws.send", socket |-> Get(ws),
                           data |-> JSONstringify(event)] >>
                /\ SubSeq(r.a.effects, 1, Len(effects)) = effects
                /\ r.a.ws = ws /\ r.a.sockets = sockets
           ELSE /\ r.raised
                /\ r.a = Api

\* a connected API whose last call handed an event to the socket it holds
C17_Witness ==
    /\ isConnected(Api)
    /\ Len(effects) > 0
    /\ effects[Len(effects)].op = "ws.send"
    /\ effects[Len(effects)].socket = Get(ws)

\* new is the sequence items with one new element at its end, with the
\* element removed that is registered under id, or unchanged
OrderKept(new, id) ==
    \/ new = items
    \/ /\ Len(new) = Len(items) + 1
       /\ SubSeq(new, 1, Len(items)) = items
       /\ new[Len(new)] \notin Range(items)
    \/ /\ Registered(id)
       /\ \E i \in 1..Len(items) :
             items[i] = Get(itemLookup[id]) /\ new = Splice1(items, i)

\* the sequence after processEvent(event, args), for an event that names id
KeepsOrder(event, args, id) ==
    OrderKept(processEvent(Store, event, args).s.items, id)

KeepsItems(event) == processEvent(Store, event, Undef).s.items = items

\* C18: an event leaves the item sequence as it was, appends one new item
\* at its end, or removes the item of the id it names; the items that stay
\* keep their relative order.
C18_SequenceNeverReordered ==
    /\ \A id \in Ids :
          /\ \A type \in ItemEventTypes : \A item \in ItemShapes(id) :
                KeepsOrder(ItemEvent(type, item), Undef, id)
          /\ \A rid \in RIds : \A item \in ItemShapes(id) :
                KeepsOrder(OutputItemAddedEvent(rid, item), Undef, id)
          /\ \A item \in DoneItems({id}) :
                KeepsItems(OutputItemDoneEvent(item))
          /\ \A ms \in TruncateTimes : KeepsItems(TruncatedEvent(id, ms))
          /\ KeepsOrder(DeletedEvent(id), Undef, id)
          /\ \A transcript \in Transcripts :
                KeepsItems(TranscriptionCompletedEvent(id, transcript))
          /\ \A ms \in SpeechStartTimes : KeepsItems(SpeechStartedEvent(id, ms))
          /\ \A ms \in SpeechStopTimes : \A buffer \in InputBuffers :
                KeepsOrder(SpeechStoppedEvent(id, ms), buffer, id)
          /\ \A part \in Parts : KeepsItems(ContentPartAddedEvent(id, part))
          /\ \A type \in TextDeltaTypes : \A ci \in ContentIndexes : \A d \in TextDeltas :
                KeepsItems(DeltaEvent(type, id, ci, d))
          /\ \A type \in AudioDeltaTypes : \A d \in AudioDeltas :
                KeepsItems(DeltaEvent(type, id, 0, d))
    /\ \A rid \in RIds : \A output \in ResponseOutputs :
          KeepsItems(ResponseCreatedEvent(rid, output))
    /\ KeepsItems(OutputItemDoneEvent(Undef))
    /\ \A event \in MalformedEvents : KeepsItems(event)

\* two items in the sequence, of which the first can be deleted and behind
\* which a third can be appended
C18_Witness ==
    /\ items = <<1, 2>>
    /\ itemLookup["X"] = Def(1)
    /\ itemLookup["Y"] = Def(2)

\* a response that is registered and has an output sequence
HasOutput(rid) ==
    IsDef(responseLookup[rid]) /\ IsDef(Get(responseLookup[rid]).output)

\* C19: for a registered response and an unregistered item id,
\* response.output_item.added leaves the stored item, its formatted
\* projection, its status and the pending buffers exactly as
\* conversation.item.created does for the same payload from the same store,
\* and appends the item id to the output of the response.
C19_AddedMaterializesAsCreated ==
    \A rid \in RIds : \A id \in Ids : \A item \in ItemShapes(id) :
        (HasOutput(rid) /\ ~Registered(id)) =>
            LET a == processEvent(Store, OutputItemAddedEvent(rid, item), Undef)
                c == processEvent(Store,
                         ItemEvent("conversation.item.created", item), Undef)
            IN /\ ~a.raised
               /\ a.item = c.item
               /\ a.s.itemLookup = c.s.itemLookup
               /\ a.s.items = c.s.items
               /\ a.s.heap[Get(a.s.itemLookup[id])] = c.s.heap[Get(c.s.itemLookup[id])]
               /\ a.s.queuedSpeechItems = c.s.queuedSpeechItems
               /\ a.s.queuedTranscriptItems = c.s.queuedTranscriptItems
               /\ a.s.queuedInputAudio = c.s.queuedInputAudio
               /\ OutputOf(a.s.responseLookup, rid)
                     = Append(OutputOf(responseLookup, rid), id)

\* C20: response.function_call_arguments.delta for a registered
\* function_call item, whichever handler registered it, appends the delta
\* to the item's arguments and to formatted.tool.arguments and returns the
\* item with the delta {arguments: delta}.
C20_ArgumentsDeltaAppendsToBoth ==
    \A id \in Ids : \A delta \in TextDeltas :
        (Registered(id) /\ heap[Get(itemLookup[id])].type = "function_call") =>
            LET ref == Get(itemLookup[id])
                o == heap[ref]
                r == processEvent(Store,
                         DeltaEvent("response.function_call_arguments.delta",
                                    id, 0, delta), Undef)
                n == r.s.heap[ref]
            IN /\ ~r.raised
               /\ n.arguments = Def(Str(o.arguments) \o delta)
               /\ IsDef(o.formatted.tool) /\ IsDef(n.formatted.tool)
               /\ Get(n.formatted.tool).arguments
                     = Get(o.formatted.tool).arguments \o delta
               /\ r.item = Def(ref)
               /\ r.delta = DeltaOf(Undef, Undef, Undef, Def(delta))

\* a string field of a content part, the undefined one read as empty
OrEmpty(x) == IF IsDef(x) THEN Get(x) ELSE << >>

TextAppended(type, id, ci, delta) ==
    LET ref == Get(itemLookup[id])
        o == heap[ref]
        r == processEvent(Store, DeltaEvent(type, id, ci, delta), Undef)
        n == r.s.heap[ref]
    IN /\ ~r.raised
       /\ PartOf(n, ci).text = Def(OrEmpty(PartOf(o, ci).text) \o delta)
       /\ n.formatted.text = o.formatted.text \o delta
       /\ r.item = Def(ref)
       /\ r.delta = DeltaOf(Def(delta), Undef, Undef, Undef)

TranscriptAppended(type, id, ci, delta) ==
    LET ref == Get(itemLookup[id])
        o == heap[ref]
        r == processEvent(Store, DeltaEvent(type, id, ci, delta), Undef)
        n == r.s.heap[ref]
    IN /\ ~r.raised
       /\ PartOf(n, ci).transcript = Def(OrEmpty(PartOf(o, ci).transcript) \o delta)
       /\ IsDef(o.formatted.transcript)
       /\ n.formatted.transcript = Def(Get(o.formatted.transcript) \o delta)
       /\ r.item = Def(ref)
       /\ r.delta = DeltaOf(Undef, Def(delta), Undef, Undef)

\* C21: a text delta for a registered item appends the fragment to the text
\* of the addressed content part, an undefined text read as empty, and to
\* formatted.text; an audio-transcript delta does the same with the part's
\* transcript and formatted.transcript; the returned delta is the fragment.
C21_DeltaAppendsToPartAndFormatted ==
    \A id \in Ids : \A ci \in ContentIndexes : \A delta \in TextDeltas :
        (Registered(id) /\ HasPart(heap[Get(itemLookup[id])], ci)) =>
            /\ TextAppended("response.text.delta", id, ci, delta)
            /\ TextAppended("response.output_text.delta", id, ci, delta)
            /\ TranscriptAppended("response.audio_transcript.delta", id, ci, delta)
            /\ TranscriptAppended("response.output_audio_transcript.delta",
                                  id, ci, delta)

\* C22: audio-transcript deltas processed for an unregistered id, then
\* conversation.item.created for that id: formatted.transcript of the stored
\* item is the concatenation of exactly those deltas in arrival order, and
\* the pending transcript entry of the id is gone.
C22_TranscriptFoldedOnCreation ==
    \A id \in Ids : \A item \in ItemShapes(id) :
        (~Registered(id) /\ fed[id].transcript # << >>) =>
            LET r == processEvent(Store,
                         ItemEvent("conversation.item.created", item), Undef)
            IN /\ ~r.raised
               /\ IsDef(r.s.itemLookup[id])
               /\ ObjOf(r.s, id).formatted.transcript = Def(fed[id].transcript)
               /\ r.s.queuedTranscriptItems[id] = Undef

\* the items that are no user messages
NonUserShapes(id) ==
    {item \in ItemShapes(id) : ~(item.type = "message" /\ item.role = Def("user"))}

\* the audio the content parts of a payload carry, decoded, in order
ContentAudio(item) ==
    IF IsDef(item.content) THEN WalkAudio(Get(item.content), << >>) ELSE << >>

\* C23: audio deltas processed for an unregistered id are held by its
\* pending segment in arrival order; conversation.item.created for that id
\* with an item that is no user message stores formatted.audio = those
\* chunks in arrival order followed by the audio of the item's own content
\* parts, and deletes the pending segment.
C23_AudioFoldedOnCreation ==
    \A id \in Ids : \A item \in NonUserShapes(id) :
        (~Registered(id) /\ fed[id].audio # << >>) =>
            LET r == processEvent(Store,
                         ItemEvent("conversation.item.created", item), Undef)
            IN /\ IsDef(queuedSpeechItems[id])
               /\ Get(queuedSpeechItems[id]).audio = Def(fed[id].audio)
               /\ ~r.raised
               /\ IsDef(r.s.itemLookup[id])
               /\ ObjOf(r.s, id).formatted.audio = fed[id].audio \o ContentAudio(item)
               /\ r.s.queuedSpeechItems[id] = Undef

\* the pending segment of id was opened by an audio delta and no
\* speech_started or speech_stopped event has written it
OpenedByAudioDelta(id) ==
    /\ IsDef(queuedSpeechItems[id])
    /\ Get(queuedSpeechItems[id]).audio_start_ms = Undef
    /\ Get(queuedSpeechItems[id]).audio_end_ms = Undef

\* C23, amended: as C23 for an id whose pending segment no speech boundary
\* event has written: the segment holds the chunks of the audio deltas in
\* arrival order, and creation of a non-user item stores them followed by
\* the audio of the item's content parts and deletes the segment.
C23_AudioFoldedWithoutBoundary ==
    \A id \in Ids : \A item \in NonUserShapes(id) :
        (~Registered(id) /\ fed[id].audio # << >> /\ OpenedByAudioDelta(id)) =>
            LET r == processEvent(Store,
                         ItemEvent("conversation.item.created", item), Undef)
            IN /\ Get(queuedSpeechItems[id]).audio = Def(fed[id].audio)
               /\ ~r.raised
               /\ IsDef(r.s.itemLookup[id])
               /\ ObjOf(r.s, id).formatted.audio = fed[id].audio \o ContentAudio(item)
               /\ r.s.queuedSpeechItems[id] = Undef

\* two audio deltas were processed for the unregistered X, in the order
\* <<1>> then <<-2, 3>>; the item created next can carry audio of its own
C23_Witness ==
    /\ ~Registered("X")
    /\ OpenedByAudioDelta("X")
    /\ fed["X"].audio = <<1, -2, 3>>
    /\ \E item \in NonUserShapes("X") : ContentAudio(item) # << >>

IsUserMessage(item) == item.type = "message" /\ item.role = Def("user")

\* the objects stored under the ids other than id are as they were
OthersUntouched(s, id) ==
    \A other \in Ids \ {id} :
        /\ s.itemLookup[other] = itemLookup[other]
        /\ Registered(other) => ObjOf(s, other) = ObjOf(Store, other)

\* C24: queueInputAudio replaces whatever buffer is queued; a creation event
\* for a user message puts the queued buffer into formatted.audio of the
\* item stored under the event's id, touches no other item and leaves the
\* queue empty; a creation event for any other item leaves the queue as it
\* is.
C24_InputAudioToNextUserMessage ==
    /\ \A buffer \in {InputBuffer, <<7, 8>>} :
          queueInputAudio(Store, buffer).queuedInputAudio = Def(buffer)
    /\ \A id \in Ids : \A item \in ItemShapes(id) : \A type \in CreationTypes :
          LET r == processEvent(Store, ItemEvent(type, item), Undef)
          IN /\ ~r.raised
             /\ IF IsUserMessage(item)
                THEN IsDef(queuedInputAudio) =>
                        /\ r.s.queuedInputAudio = Undef
                        /\ IsDef(r.s.itemLookup[id])
                        /\ ObjOf(r.s, id).formatted.audio = Get(queuedInputAudio)
                        /\ OthersUntouched(r.s, id)
                ELSE r.s.queuedInputAudio = queuedInputAudio

\* transcript || ' '
OrSpace(transcript) == IF Truthy(transcript) THEN Get(transcript) ELSE <<" ">>

\* C25: conversation.item.input_audio_transcription.completed for an
\* unregistered id queues the transcript, a single space for an empty or
\* absent one, and the item then created with that id has that value as
\* formatted.transcript; for a registered id it sets the transcript of the
\* addressed content part and formatted.transcript (a single space for an
\* empty one) and returns the item with a transcript delta.
C25_TranscriptionCompleted ==
    \A id \in Ids : \A transcript \in Transcripts :
        LET r == processEvent(Store, TranscriptionCompletedEvent(id, transcript), Undef)
        IN IF ~Registered(id)
           THEN /\ ~r.raised
                /\ r.item = Undef /\ r.delta = NoDelta
                /\ r.s.queuedTranscriptItems[id]
                      = Def([transcript |-> Def(OrSpace(transcript)), arguments |-> Undef])
                /\ \A item \in ItemShapes(id) : \A type \in CreationTypes :
                      LET c == processEvent(r.s, ItemEvent(type, item), Undef)
                      IN /\ ~c.raised
                         /\ IsDef(c.s.itemLookup[id])
                         /\ ObjOf(c.s, id).formatted.transcript
                               = Def(OrSpace(transcript))
                         /\ c.s.queuedTranscriptItems[id] = Undef
           ELSE HasPart(ObjOf(Store, id), 0) =>
                /\ ~r.raised
                /\ r.item = itemLookup[id]
                /\ PartOf(ObjOf(r.s, id), 0).transcript = transcript
                /\ ObjOf(r.s, id).formatted.transcript = Def(OrSpace(transcript))
                /\ r.delta = DeltaOf(Undef, transcript, Undef, Undef)

\* X is registered with a content part and a transcript, Y is unregistered
\* with a pending transcript that a completed transcription replaces
C25_Witness ==
    /\ Registered("X") /\ HasPart(ObjOf(Store, "X"), 0)
    /\ ObjOf(Store, "X").formatted.transcript = Def(<<"a">>)
    /\ ~Registered("Y")
    /\ IsDef(queuedTranscriptItems["Y"])

\* the start time speech_stopped at end_ms finds for id: that of the pending
\* segment when it has one, the end time otherwise
StartFor(id, end_ms) ==
    IF IsDef(queuedSpeechItems[id]) /\ IsDef(Get(queuedSpeechItems[id]).audio_start_ms)
    THEN Get(Get(queuedSpeechItems[id]).audio_start_ms)
    ELSE end_ms

\* buffer[floor(start_ms * rate / 1000) .. floor(end_ms * rate / 1000))
Window(buffer, start_ms, end_ms) ==
    Slice(buffer, Floor(start_ms * defaultFrequency, 1000),
                  Floor(end_ms * defaultFrequency, 1000))

\* C26: after input_audio_buffer.speech_stopped for an id the pending
\* segment of the id has the event's audio_end_ms and, as audio_start_ms,
\* the time of the preceding speech_started or else the end time; with a
\* caller's input buffer its audio is the window of the buffer between the
\* two sample indexes at the active rate, and an item created next with
\* that id has exactly that window as formatted.audio.
C26_SpeechStoppedWindow ==
    \A id \in Ids : \A ms \in SpeechStopTimes : \A buffer \in InputBuffers :
        LET r == processEvent(Store, SpeechStoppedEvent(id, ms), buffer)
            seg == Get(r.s.queuedSpeechItems[id])
        IN /\ ~r.raised
           /\ IsDef(r.s.queuedSpeechItems[id])
           /\ seg.audio_end_ms = Def(ms)
           /\ seg.audio_start_ms = Def(StartFor(id, ms))
           /\ IsDef(buffer) =>
                 /\ seg.audio = Def(Window(Get(buffer), StartFor(id, ms), ms))
                 /\ ~Registered(id) =>
                       \A item \in ItemShapes(id) : \A type \in CreationTypes :
                          LET c == processEvent(r.s, ItemEvent(type, item), Undef)
                          IN /\ ~c.raised
                             /\ IsDef(c.s.itemLookup[id])
                             /\ ObjOf(c.s, id).formatted.audio
                                   = Window(Get(buffer), StartFor(id, ms), ms)

\* id has no pending segment, or one that carries a start time
StartKnown(id) ==
    IsDef(queuedSpeechItems[id]) => IsDef(Get(queuedSpeechItems[id]).audio_start_ms)

\* C26, amended: for an id whose pending segment, if any, carries a start
\* time, speech_stopped leaves a segment with the event's audio_end_ms and
\* with the start time the segment had, or the end time if there was no
\* segment; with a caller's input buffer the segment's audio is the window
\* of the buffer between the two sample indexes at the active rate; the item
\* created next with that id has as formatted.audio that window followed by
\* the audio of its own content parts, or, for a user message while an input
\* buffer is queued, the queued buffer.
C26_SpeechStoppedWindowFromStart ==
    \A id \in Ids : \A ms \in SpeechStopTimes : \A buffer \in InputBuffers :
        StartKnown(id) =>
            LET r == processEvent(Store, SpeechStoppedEvent(id, ms), buffer)
                seg == Get(r.s.queuedSpeechItems[id])
                window == Window(Get(buffer), StartFor(id, ms), ms)
            IN /\ ~r.raised
               /\ IsDef(r.s.queuedSpeechItems[id])
               /\ seg.audio_end_ms = Def(ms)
               /\ seg.audio_start_ms = Def(StartFor(id, ms))
               /\ IsDef(buffer) =>
                     /\ seg.audio = Def(window)
                     /\ ~Registered(id) =>
                           \A item \in ItemShapes(id) : \A type \in CreationTypes :
                              LET c == processEvent(r.s, ItemEvent(type, item), Undef)
                              IN /\ ~c.raised
                                 /\ IsDef(c.s.itemLookup[id])
                                 /\ c.s.queuedSpeechItems[id] = Undef
                                 /\ ObjOf(c.s, id).formatted.audio
                                       = IF IsUserMessage(item) /\ IsDef(queuedInputAudio)
                                         THEN Get(queuedInputAudio)
                                         ELSE window \o ContentAudio(item)

\* speech_started at 1 ms was processed for the unregistered X at 8000 Hz:
\* a speech_stopped at 2 ms cuts the samples 8..15 out of the input buffer
C26_Witness ==
    /\ ~Registered("X")
    /\ IsDef(queuedSpeechItems["X"])
    /\ Get(queuedSpeechItems["X"]).audio_start_ms = Def(1)
    /\ Get(queuedSpeechItems["X"]).audio_end_ms = Undef
    /\ defaultFrequency = 8000
    /\ Len(Window(InputBuffer, 1, 2)) = 8

\* the item processEvent returns, if any, is the object the store holds
\* under that item's id when the call is done
ReturnsStored(event, args) ==
    LET r == processEvent(Store, event, args)
    IN (~r.raised /\ IsDef(r.item)) =>
          r.s.itemLookup[r.s.heap[Get(r.item)].id] = r.item

\* C27: an item returned by processEvent is the object stored under its id,
\* the same as getItem(id) gives, or for conversation.item.deleted the
\* object that was stored and has just been removed; also when the event
\* is a creation or a response.output_item.added for a registered id.
C27_ReturnedItemIsStored ==
    /\ \A id \in Ids :
          /\ \A type \in ItemEventTypes : \A item \in ItemShapes(id) :
                ReturnsStored(ItemEvent(type, item), Undef)
          /\ \A rid \in RIds : \A item \in ItemShapes(id) :
                ReturnsStored(OutputItemAddedEvent(rid, item), Undef)
          /\ \A item \in DoneItems({id}) :
                ReturnsStored(OutputItemDoneEvent(item), Undef)
          /\ \A ms \in TruncateTimes : ReturnsStored(TruncatedEvent(id, ms), Undef)
          /\ LET r == processEvent(Store, DeletedEvent(id), Undef)
             IN (~r.raised /\ IsDef(r.item)) =>
                   r.item = getItem(Store, id) /\ r.s.itemLookup[id] = Undef
          /\ \A transcript \in Transcripts :
                ReturnsStored(TranscriptionCompletedEvent(id, transcript), Undef)
          /\ \A ms \in SpeechStartTimes :
                ReturnsStored(SpeechStartedEvent(id, ms), Undef)
          /\ \A ms \in SpeechStopTimes : \A buffer \in InputBuffers :
                ReturnsStored(SpeechStoppedEvent(id, ms), buffer)
          /\ \A part \in Parts : ReturnsStored(ContentPartAddedEvent(id, part), Undef)
          /\ \A type \in TextDeltaTypes : \A ci \in ContentIndexes : \A d \in TextDeltas :
                ReturnsStored(DeltaEvent(type, id, ci, d), Undef)
          /\ \A type \in AudioDeltaTypes : \A d \in AudioDeltas :
                ReturnsStored(DeltaEvent(type, id, 0, d), Undef)
    /\ \A rid \in RIds : \A output \in ResponseOutputs :
          ReturnsStored(ResponseCreatedEvent(rid, output), Undef)

Returns(event, args) == ~processEvent(Store, event, args).raised

\* C28: processEvent raises for an event without event_id, without type or
\* with a type that has no handler, and for no other event: every event of
\* a handled type with well-formed fields gets a result, whatever the store.
C28_RaisesOnlyFailLoud ==
    /\ \A event \in MalformedEvents : ~Returns(event, Undef)
    /\ \A id \in Ids :
          /\ \A type \in ItemEventTypes : \A item \in ItemShapes(id) :
                Returns(ItemEvent(type, item), Undef)
          /\ \A rid \in RIds : \A item \in ItemShapes(id) :
                (IsDef(responseLookup[rid]) => HasOutput(rid)) =>
                    Returns(OutputItemAddedEvent(rid, item), Undef)
          /\ \A item \in DoneItems({id}) : Returns(OutputItemDoneEvent(item), Undef)
          /\ \A ms \in TruncateTimes : Returns(TruncatedEvent(id, ms), Undef)
          /\ Returns(DeletedEvent(id), Undef)
          /\ \A transcript \in Transcripts :
                Returns(TranscriptionCompletedEvent(id, transcript), Undef)
          /\ \A ms \in SpeechStartTimes : Returns(SpeechStartedEvent(id, ms), Undef)
          /\ \A ms \in SpeechStopTimes : \A buffer \in InputBuffers :
                Returns(SpeechStoppedEvent(id, ms), buffer)
          /\ \A part \in Parts : Returns(ContentPartAddedEvent(id, part), Undef)
          /\ \A type \in TextDeltaTypes : \A ci \in ContentIndexes : \A d \in TextDeltas :
                Returns(DeltaEvent(type, id, ci, d), Undef)
          /\ \A type \in AudioDeltaTypes : \A d \in AudioDeltas :
                Returns(DeltaEvent(type, id, 0, d), Undef)
    /\ \A rid \in RIds : Returns(ResponseCreatedEvent(rid, Def(<< >>)), Undef)

\* a call that raises leaves the store as it found it
Atomic(event, args) ==
    LET r == processEvent(Store, event, args)
    IN r.raised => r.s = Store

\* C29: whenever processEvent raises, in whatever handler and for whatever
\* reason, the store after the call is the store before it.
C29_RaiseLeavesStore ==
    /\ \A event \in MalformedEvents : Atomic(event, Undef)
    /\ \A id \in Ids :
          /\ \A type \in ItemEventTypes : \A item \in ItemShapes(id) :
                Atomic(ItemEvent(type, item), Undef)
          /\ \A rid \in RIds : \A item \in ItemShapes(id) :
                Atomic(OutputItemAddedEvent(rid, item), Undef)
          /\ \A item \in DoneItems({id}) : Atomic(OutputItemDoneEvent(item), Undef)
          /\ \A ms \in TruncateTimes : Atomic(TruncatedEvent(id, ms), Undef)
          /\ Atomic(DeletedEvent(id), Undef)
          /\ \A transcript \in Transcripts :
                Atomic(TranscriptionCompletedEvent(id, transcript), Undef)
          /\ \A ms \in SpeechStartTimes : Atomic(SpeechStartedEvent(id, ms), Undef)
          /\ \A ms \in SpeechStopTimes : \A buffer \in InputBuffers :
                Atomic(SpeechStoppedEvent(id, ms), buffer)
          /\ \A part \in Parts : Atomic(ContentPartAddedEvent(id, part), Undef)
          /\ \A type \in TextDeltaTypes : \A ci \in ContentIndexes : \A d \in TextDeltas :
                Atomic(DeltaEvent(type, id, ci, d), Undef)
          /\ \A type \in AudioDeltaTypes : \A d \in AudioDeltas :
                Atomic(DeltaEvent(type, id, 0, d), Undef)
    /\ \A rid \in RIds : \A output \in ResponseOutputs :
          Atomic(ResponseCreatedEvent(rid, output), Undef)

IsPrefix(a, b) == Len(a) <= Len(b) /\ SubSeq(b, 1, Len(a)) = a

\* what the creation event took out of the pending buffers is in the
\* formatted projection of the object stored under id afterwards
DrainedIntoStored(event, id) ==
    LET r == processEvent(Store, event, Undef)
        seg == Get(queuedSpeechItems[id])
        entry == Get(queuedTranscriptItems[id])
        o == ObjOf(r.s, id)
    IN ~r.raised =>
          /\ (/\ IsDef(queuedSpeechItems[id])
              /\ r.s.queuedSpeechItems[id] = Undef
              /\ IsDef(seg.audio))
                => IsDef(r.s.itemLookup[id]) /\ IsPrefix(Get(seg.audio), o.formatted.audio)
          /\ (/\ IsDef(queuedTranscriptItems[id])
              /\ r.s.queuedTranscriptItems[id] = Undef)
                => /\ IsDef(r.s.itemLookup[id])
                   /\ IsDef(entry.transcript) => o.formatted.transcript = entry.transcript
                   /\ Truthy(entry.arguments) =>
                         /\ IsDef(o.formatted.tool)
                         /\ Get(o.formatted.tool).arguments = Get(entry.arguments)
          /\ (IsDef(queuedInputAudio) /\ r.s.queuedInputAudio = Undef)
                => IsDef(r.s.itemLookup[id]) /\ o.formatted.audio = Get(queuedInputAudio)

\* C30: a creation event that removes a pending speech segment, a pending
\* transcript or arguments fragment or the queued input audio leaves the
\* removed data in the formatted projection of the item stored under the
\* event's item id.
C30_DrainedDataIsStored ==
    \A id \in Ids : \A item \in ItemShapes(id) :
        /\ \A type \in ItemEventTypes : DrainedIntoStored(ItemEvent(type, item), id)
        /\ \A rid \in RIds : DrainedIntoStored(OutputItemAddedEvent(rid, item), id)

\* C31: the output sequence of every registered response names each item
\* id at most once.
C31_OutputHasNoDuplicates ==
    \A rid \in RIds : \A id \in Ids :
        Occurrences(OutputOf(responseLookup, rid), id) <= 1

\* the 'close' notifications published so far
Closes == SelectSeq(effects, LAMBDA e : e.op = "dispatch" /\ e.name = <<"close">>)

\* the sockets that opened, and of them those that are no longer open and
\* those whose close callback has run
Established == {k \in SocketIds : sockets[k].onClose}
Lost == {k \in Established : sockets[k].phase \in {"closing", "closed"}}
Gone == {k \in Established : sockets[k].phase = "closed"}

\* C32: every established connection that is lost publishes one 'close'
\* notification, not two: there are at most as many 'close' notifications
\* as connections lost, one for each that has closed, and the API holds no
\* socket from the first callback of its loss on.
C32_OneClosePerLoss ==
    /\ Len(Closes) <= Cardinality(Lost)
    /\ Len(Closes) >= Cardinality(Gone)
    /\ \A k \in Lost : ws # Def(k)

\* C33: the API owns at most one live socket: connect() raises exactly when
\* a socket is held, and every socket that has opened and not begun to
\* close is the one the API holds, the one isConnected, send and disconnect
\* act on.
C33_OneLiveSocket ==
    /\ connect_check(Api).raised <=> isConnected(Api)
    /\ \A k \in SocketIds : sockets[k].phase = "open" => ws = Def(k)

====
